---------------------------- MODULE Spec2Model ----------------------------
(***************************************************************************)
(* Model of the ally_agent_demo tool manager: the external-tools generator *)
(* (services/externalToolsGenerator.js), the update-external route that    *)
(* feeds it (routes/tools.js), and the Python callable the generator emits *)
(* for the reserved MCP tools.                                             *)
(*                                                                         *)
(* Text is a sequence of one-character strings, so that every replace()    *)
(* of the source is computed character by character.                       *)
(***************************************************************************)
EXTENDS Integers, Sequences, FiniteSets, TLC

VARIABLES
    instructions,      \* formatInstructions: the text handed in
    formatted,         \* formatInstructions: the text handed back
    users,             \* table users: id -> row
    tools,             \* table tools: id -> row
    tool_groups,       \* table tool_groups: id -> row
    tool_group_tools,  \* table tool_group_tools: set of <<group id, tool id, copy>>
    user_tool_group_selections, \* table: set of <<user id, group id, enabled>>
    session,           \* req.session: currentUser, enabledTools, enabledToolGroups
    file,              \* content of external_tool_agents.py
    response,          \* status of the last response sent
    lastInput,         \* the last request served: what it asked and what it found
    pc,                \* generated callable: position of the invoking thread
    env,               \* generated callable: the situation it is invoked in
    runs,              \* generated callable: times the inner coroutine body ran
    raised,            \* generated callable: exception in flight
    ret,               \* generated callable: value handed back to the caller
    oauth_clients,     \* table oauth_clients: set of rows
    inflight,          \* the requests the server has accepted and not yet answered
    completed,         \* the document of the last update-external request answered 302
    issued,            \* the client secrets handed out so far, oldest first
    entropy,           \* number of values crypto.randomBytes has produced
    discovery,         \* the discovery request: handler, child process and timer
    sqlite_sequence,   \* table sqlite_sequence: the last AUTOINCREMENT id per table
    temp_mcp_discover  \* the file temp_mcp_discover.py: absent or written

vars == <<instructions, formatted, users, tools, tool_groups, tool_group_tools,
          user_tool_group_selections, session, file, response, lastInput,
          pc, env, runs, raised, ret,
          oauth_clients, inflight, completed, issued, entropy, discovery, temp_mcp_discover,
          sqlite_sequence>>

fmtVars == <<instructions, formatted>>
genVars == <<users, tools, tool_groups, tool_group_tools, user_tool_group_selections,
             session, file, response, lastInput>>
callVars == <<pc, env, runs, raised, ret>>
srvVars == <<oauth_clients, inflight, completed, issued, entropy, discovery, temp_mcp_discover,
             sqlite_sequence>>

\* A value no text, document or row equals.
None == "none"

\* The absent value where the present one is a record.
NoRecord == [none |-> TRUE]

-----------------------------------------------------------------------------
(* Text helpers: the JavaScript string primitives the source uses.          *)

\* Longest instructions text enumerated.
MaxLen == 4

\* The characters instructions texts are drawn from: a letter, the three
\* characters formatInstructions escapes, and three kinds of whitespace.
TextChars == {"a", "\\", "\"", "'", "\n", " ", "\t"}

\* /\s/ restricted to the characters of the model (String.prototype.trim
\* strips the same class).
IsSpace(c) == c \in {" ", "\n", "\t", "\r"}

RECURSIVE Texts(_, _)
Texts(chars, n) ==
    IF n = 0 THEN {<< >>}
    ELSE LET shorter == Texts(chars, n - 1)
         IN  shorter \cup {Append(s, c) : s \in {x \in shorter : Len(x) = n - 1}, c \in chars}

\* s.replace(/c/g, by): every occurrence of the character c replaced by the text by.
RECURSIVE ReplaceChar(_, _, _)
ReplaceChar(s, c, by) ==
    IF s = << >> THEN << >>
    ELSE (IF Head(s) = c THEN by ELSE <<Head(s)>>) \o ReplaceChar(Tail(s), c, by)

\* s.replace(/\s+/g, by): every maximal run of whitespace replaced by the text by.
RECURSIVE ReplaceSpaceRuns(_, _)
ReplaceSpaceRuns(s, by) ==
    IF s = << >> THEN << >>
    ELSE IF IsSpace(Head(s))
         THEN IF Len(s) > 1 /\ IsSpace(s[2])
              THEN ReplaceSpaceRuns(Tail(s), by)
              ELSE by \o ReplaceSpaceRuns(Tail(s), by)
         ELSE <<Head(s)>> \o ReplaceSpaceRuns(Tail(s), by)

RECURSIVE TrimStart(_)
TrimStart(s) ==
    IF s # << >> /\ IsSpace(Head(s)) THEN TrimStart(Tail(s)) ELSE s

RECURSIVE TrimEnd(_)
TrimEnd(s) ==
    IF s # << >> /\ IsSpace(s[Len(s)]) THEN TrimEnd(SubSeq(s, 1, Len(s) - 1)) ELSE s

\* String.prototype.trim
Trim(s) == TrimEnd(TrimStart(s))

\* formatInstructions with the two quote replacements ahead of the backslash
\* replacement: the backslashes they insert are escaped a second time.
formatInstructionsQuotesFirst(text) ==
    Trim(ReplaceSpaceRuns(
        ReplaceChar(
            ReplaceChar(
                ReplaceChar(
                    ReplaceChar(text, "\"", <<"\\", "\"">>),
                    "'", <<"\\", "'">>),
                "\\", <<"\\", "\\">>),
            "\n", <<" ">>),
        <<" ">>))

\* formatInstructions(instructions): backslashes, double quotes, single quotes,
\* newlines, whitespace runs, trim, in that order.
formatInstructions(text) ==
    Trim(ReplaceSpaceRuns(
        ReplaceChar(
            ReplaceChar(
                ReplaceChar(
                    ReplaceChar(text, "\\", <<"\\", "\\">>),
                    "\"", <<"\\", "\"">>),
                "'", <<"\\", "'">>),
            "\n", <<" ">>),
        <<" ">>))

-----------------------------------------------------------------------------
(* The format specification: formatInstructions applied to every text of up *)
(* to MaxLen characters.                                                    *)

\* The generator and its route at rest.
GenIdle ==
    /\ users = << >>
    /\ tools = << >>
    /\ tool_groups = << >>
    /\ tool_group_tools = {}
    /\ user_tool_group_selections = {}
    /\ session = [currentUser |-> NoRecord, enabledTools |-> << >>, enabledToolGroups |-> << >>]
    /\ file = NoRecord
    /\ response = None
    /\ lastInput = NoRecord

\* No generated callable being invoked.
CallIdle ==
    /\ pc = "idle"
    /\ env = NoRecord
    /\ runs = 0
    /\ raised = NoRecord
    /\ ret = NoRecord

\* No text being formatted.
FormatIdle ==
    /\ instructions = << >>
    /\ formatted = None

\* No OAuth client stored, no request accepted, nothing handed out, and no
\* row ever deleted: the AUTOINCREMENT counters stand at the last ids.
SrvIdle ==
    /\ oauth_clients = {}
    /\ inflight = << >>
    /\ completed = NoRecord
    /\ issued = << >>
    /\ entropy = 0
    /\ discovery = NoRecord
    /\ temp_mcp_discover = "absent"
    /\ sqlite_sequence = [users |-> Len(users), tools |-> Len(tools),
                          tool_groups |-> Len(tool_groups)]

InitFormat ==
    /\ instructions \in Texts(TextChars, MaxLen)
    /\ formatted = None
    /\ GenIdle
    /\ CallIdle
    /\ SrvIdle

FormatInstructions ==
    /\ formatted = None
    /\ formatted' = formatInstructions(instructions)
    /\ UNCHANGED <<instructions, genVars, callVars, srvVars>>

NextFormat == FormatInstructions

SpecFormat == InitFormat /\ [][NextFormat]_vars

\* What Python reads back from the text between the double quotes of a string
\* literal: \\ \" and \' each give the second character, a backslash before
\* any other character of the model stays; an unescaped double quote, or a
\* backslash with nothing after it, ends or breaks the literal.
RECURSIVE PyLiteralValue(_)
PyLiteralValue(s) ==
    IF s = << >> THEN << >>
    ELSE IF Head(s) = "\\"
         THEN IF Len(s) < 2
              THEN <<None>>
              ELSE (IF s[2] \in {"\\", "\"", "'"} THEN <<s[2]>> ELSE <<"\\", s[2]>>)
                   \o PyLiteralValue(Tail(Tail(s)))
         ELSE IF Head(s) = "\""
              THEN <<None>>
              ELSE <<Head(s)>> \o PyLiteralValue(Tail(s))

\* The text with its newlines replaced by spaces and nothing else changed.
NewlinesToSpaces(text) == ReplaceChar(text, "\n", <<" ">>)

\* The text with every run of whitespace (newlines included) replaced by one
\* space and the whitespace at both ends removed.
WhitespaceCollapsed(text) == Trim(ReplaceSpaceRuns(text, <<" ">>))

\* C8 as claimed: re-parsing the output of formatInstructions as a string
\* literal yields the input with its newlines collapsed to spaces.
C8_Original ==
    formatted # None => PyLiteralValue(formatted) = NewlinesToSpaces(instructions)

\* C8 as amended: re-parsing the output of formatInstructions as a string
\* literal yields the input with every run of whitespace (newlines included)
\* collapsed to one space and leading and trailing whitespace removed; no
\* escape sequence is broken or processed twice.
C8_Roundtrip ==
    formatted # None => PyLiteralValue(formatted) = WhitespaceCollapsed(instructions)

\* C8 witness: a text holding a backslash, a quote and a newline was formatted.
C8_Witness ==
    /\ formatted # None
    /\ \E i, j, k \in 1..Len(instructions) :
          /\ instructions[i] = "\\"
          /\ instructions[j] \in {"\"", "'"}
          /\ instructions[k] = "\n"

-----------------------------------------------------------------------------
(* Character classes and the identifiers the generator derives from names.  *)

\* The printable ASCII characters in code order (space is 32); the backtick,
\* which no text of the model holds, is spelled out.
Ascii ==
    <<" ", "!", "\"", "#", "$", "%", "&", "'", "(", ")", "*", "+", ",",
      "-", ".", "/", "0", "1", "2", "3", "4", "5", "6", "7", "8", "9",
      ":", ";", "<", "=", ">", "?", "@", "A", "B", "C", "D", "E", "F",
      "G", "H", "I", "J", "K", "L", "M", "N", "O", "P", "Q", "R", "S",
      "T", "U", "V", "W", "X", "Y", "Z", "[", "\\", "]", "^", "_",
      "backtick", "a", "b", "c", "d", "e", "f", "g", "h", "i", "j", "k", "l",
      "m", "n", "o", "p", "q", "r", "s", "t", "u", "v", "w", "x", "y",
      "z", "{", "|", "}", "~">>

CharCode(c) ==
    CASE c = "\t" -> 9
      [] c = "\n" -> 10
      [] c = "\r" -> 13
      [] OTHER -> 31 + (CHOOSE i \in 1..Len(Ascii) : Ascii[i] = c)

IsUpper(c) == CharCode(c) \in 65..90
IsLower(c) == CharCode(c) \in 97..122
IsDigit(c) == CharCode(c) \in 48..57

\* [a-zA-Z0-9_]
IsWord(c) == IsUpper(c) \/ IsLower(c) \/ IsDigit(c) \/ c = "_"

\* String.prototype.toLowerCase
toLowerCase(s) ==
    [i \in 1..Len(s) |-> IF IsUpper(s[i]) THEN Ascii[CharCode(s[i]) + 1] ELSE s[i]]

\* s.replace(/[^a-zA-Z0-9_]/g, '')
RECURSIVE RemoveNonWord(_)
RemoveNonWord(s) ==
    IF s = << >> THEN << >>
    ELSE (IF IsWord(Head(s)) THEN <<Head(s)>> ELSE << >>) \o RemoveNonWord(Tail(s))

\* agentVarName with the non-word characters removed before the whitespace
\* runs are turned into underscores: the underscores are never inserted.
agentVarNameStripFirst(name) ==
    toLowerCase(ReplaceSpaceRuns(RemoveNonWord(name), <<"_">>))

\* agentVarName / groupVarName:
\* name.replace(/\s+/g, '_').replace(/[^a-zA-Z0-9_]/g, '').toLowerCase()
agentVarName(name) ==
    toLowerCase(RemoveNonWord(ReplaceSpaceRuns(name, <<"_">>)))

\* toolFunctionName / actualToolFuncName of an MCP tool:
\* name.replace(/[^a-zA-Z0-9_]/g, '_')
toolFunctionName(name) ==
    [i \in 1..Len(name) |-> IF IsWord(name[i]) THEN name[i] ELSE "_"]

\* Number of whitespace characters of s from position i on.
RECURSIVE SpaceRun(_, _)
SpaceRun(s, i) ==
    IF i <= Len(s) /\ IsSpace(s[i]) THEN 1 + SpaceRun(s, i + 1) ELSE 0

\* Number of [a-zA-Z0-9_] characters of s from position i on.
RECURSIVE WordRun(_, _)
WordRun(s, i) ==
    IF i <= Len(s) /\ IsWord(s[i]) THEN 1 + WordRun(s, i + 1) ELSE 0

\* Group 1 of /def\s+([a-zA-Z_][a-zA-Z0-9_]*)\s*\(/ matched at position i of
\* code, or None when the pattern does not match there.
DefHeaderAt(code, i) ==
    IF /\ i + 2 <= Len(code)
       /\ code[i] = "d" /\ code[i + 1] = "e" /\ code[i + 2] = "f"
    THEN LET ws == SpaceRun(code, i + 3)
             start == i + 3 + ws
         IN  IF /\ ws >= 1
                /\ start <= Len(code)
                /\ IsWord(code[start])
                /\ ~IsDigit(code[start])
             THEN LET n == WordRun(code, start)
                      paren == start + n + SpaceRun(code, start + n)
                  IN  IF paren <= Len(code) /\ code[paren] = "("
                      THEN SubSeq(code, start, start + n - 1)
                      ELSE None
             ELSE None
    ELSE None

\* toolFuncMatch[1] with the fallback:
\*   toolFuncMatch && toolFuncMatch[1] ? toolFuncMatch[1] : `_${agentVarName}_tool_func`
\* (code.match returns the leftmost match).
actualToolFuncName(name, code) ==
    LET hits == {i \in 1..Len(code) : DefHeaderAt(code, i) # None}
    IN  IF hits = {}
        THEN <<"_">> \o agentVarName(name) \o <<"_", "t", "o", "o", "l", "_", "f", "u", "n", "c">>
        ELSE DefHeaderAt(code, CHOOSE i \in hits : \A j \in hits : i <= j)

\* code.replace(/\r\n/g, '\n')
RECURSIVE NormalizeNewlines(_)
NormalizeNewlines(code) ==
    IF code = << >> THEN << >>
    ELSE IF Len(code) >= 2 /\ code[1] = "\r" /\ code[2] = "\n"
         THEN <<"\n">> \o NormalizeNewlines(Tail(Tail(code)))
         ELSE <<Head(code)>> \o NormalizeNewlines(Tail(code))

-----------------------------------------------------------------------------
(* The reserved MCP tools and the callable generated for them.              *)

get_email_body ==
    <<"g", "e", "t", "_", "e", "m", "a", "i", "l", "_", "b", "o", "d", "y">>

get_recent_emails_summary ==
    <<"g", "e", "t", "_", "r", "e", "c", "e", "n", "t", "_", "e", "m",
      "a", "i", "l", "s", "_", "s", "u", "m", "m", "a", "r", "y">>

send_email_tool ==
    <<"s", "e", "n", "d", "_", "e", "m", "a", "i", "l", "_", "t", "o",
      "o", "l">>

\* mcpServerTools; each description is cut to a few of its words (the quoted
\* phrase of the first one kept).
mcpServerTools ==
    << [name |-> get_email_body,
        description |-> <<"a", " ", "\"", "n", "o", "t", " ", "f", "o", "u", "n", "d", "\"",
                          " ", "m", "e", "s", "s", "a", "g", "e">>,
        parameters |-> <<"subject">>],
       [name |-> get_recent_emails_summary,
        description |-> <<"l", "i", "s", "t", " ", "o", "f", " ", "s", "u", "m", "m", "a",
                          "r", "i", "e", "s">>,
        parameters |-> << >>],
       [name |-> send_email_tool,
        description |-> <<"S", "e", "n", "d", "s", " ", "a", "n", " ", "e", "m", "a", "i", "l">>,
        parameters |-> <<"recipient_email", "subject_line", "body_content",
                         "attachment_file_path">>] >>

\* ['get_email_body', 'get_recent_emails_summary', 'send_email_tool'].includes(name)
IsReservedName(name) ==
    name \in {get_email_body, get_recent_emails_summary, send_email_tool}

\* mcpServerTools.find(mcp => mcp.name === name), NoRecord when there is none.
FindMcpTool(name) ==
    LET hits == {i \in 1..Len(mcpServerTools) : mcpServerTools[i].name = name}
    IN  IF hits = {} THEN NoRecord
        ELSE mcpServerTools[CHOOSE i \in hits : \A j \in hits : i <= j]

\* The server every fixed MCP callable connects to.
LocalMcpUrl == "http://localhost:8000/mcp"

\* generateFixedMCPToolCode(tool, serverUrl, parameters): the Python function
\* it writes, field by field.
generateFixedMCPToolCode(tool, serverUrl, parameters) ==
    LET required == SelectSeq(parameters, LAMBDA p : p # "attachment_file_path")
    IN  [kind |-> "mcp_function",
         def |-> toolFunctionName(tool.name),
         signature |-> [i \in 1..Len(parameters) |->
                          [param |-> parameters[i],
                           optional |-> parameters[i] = "attachment_file_path"]],
         docstring |-> Trim(ReplaceChar(ReplaceChar(tool.description, "\"", <<"\\", "\"">>),
                                        "\n", <<" ">>)),
         coroutine |-> <<"_">> \o toolFunctionName(tool.name),
         client |-> serverUrl,
         call_tool |-> tool.name,
         params |-> required,
         optional_params |-> SelectSeq(parameters, LAMBDA p : p = "attachment_file_path"),
         on_error |-> tool.name]

\* A server that is not the local one. A URL stands in a text as one element:
\* it holds no character a replace() of the source looks for.
RemoteMcpUrl == "http://mcp.example.com/mcp"

\* generateMCPToolCode(tool, serverUrl), the code column of an imported tool:
\* of the Python function it writes, the header without its parameters and
\* the line that opens the client.
generateMCPToolCode(tool, serverUrl) ==
    <<"d", "e", "f", " ">>
    \o toolFunctionName(tool.name)
    \o <<"(", ")", ":", "\n">>
    \o <<" ", "c", "l", "i", "e", "n", "t", " ", "=",
         " ", "C", "l", "i", "e", "n", "t", "(", "\"">>
    \o <<serverUrl>>
    \o <<"\"", ")">>

-----------------------------------------------------------------------------
(* generatePythonAgentFileContent: the document is the sequence of pieces   *)
(* appended to pythonFileContent, followed by the external_tools list.      *)

\* The code column of a row stored as SQL NULL (the column has no NOT NULL).
Null == "NULL"

\* What a call of generatePythonAgentFileContent leaves when it throws.
TypeError == [error |-> "TypeError"]

\* `\n# --- ${name.replace(/"/g, '\\\"')}${suffix} --- \n`
Banner(name, suffix) ==
    [kind |-> "banner", text |-> ReplaceChar(name, "\"", <<"\\", "\"">>) \o suffix]

\* The three comment lines written ahead of a fixed MCP callable.
McpComment(mcpTool) ==
    [kind |-> "mcp_comment", tool |-> mcpTool.name, serverUrl |-> LocalMcpUrl,
     description |-> mcpTool.description]

\* `${tool.code.replace(/\r\n/g, '\n')}\n\n`
StoredCode(tool) ==
    [kind |-> "code", text |-> NormalizeNewlines(tool.code)]

\* formattedName / formattedGroupName
formattedName(name) ==
    ReplaceChar(ReplaceChar(name, "\"", <<"\\", "\"">>), "\n", <<" ">>)

\* `${varName}_agent = Agent(name=..., instructions=..., tools=[...])`
AgentDecl(varName, name, text, toolFunctionNames) ==
    [kind |-> "agent",
     var |-> varName \o <<"_", "a", "g", "e", "n", "t">>,
     name |-> formattedName(name),
     instructions |-> formatInstructions(text),
     tools |-> toolFunctionNames]

\* `Call this tool for tasks related to ${name.toLowerCase()...}.`
DescriptionForExport(name) ==
    <<"C", "a", "l", "l", " ", "t", "h", "i", "s", " ", "t", "o", "o",
      "l", " ", "f", "o", "r", " ", "t", "a", "s", "k", "s", " ", "r",
      "e", "l", "a", "t", "e", "d", " ", "t", "o", " ">>
    \o ReplaceChar(ReplaceChar(toLowerCase(name), "\"", <<"\\", "\"">>), "\n", <<" ">>)
    \o <<".">>

\* One element of externalToolsListEntries.
AsTool(varName, description) ==
    [agent |-> varName \o <<"_", "a", "g", "e", "n", "t">>,
     tool_name |-> <<"g", "e", "t", "_">> \o varName
                   \o <<"_", "f", "r", "o", "m", "_", "s", "p", "e", "c", "i", "a", "l",
                        "i", "s", "t", "_", "a", "g", "e", "n", "t">>,
     tool_description |-> description]

\* ToolSection that passes over every tool of a reserved name.
ToolSectionSkipReserved(tool) ==
    IF IsReservedName(tool.name) THEN << >>
    ELSE << Banner(tool.name, << >>),
            StoredCode(tool),
            AgentDecl(agentVarName(tool.name), tool.name, tool.description,
                      <<actualToolFuncName(tool.name, tool.code)>>) >>

\* The pieces one element of enabledTools appends to pythonFileContent.
ToolSection(tool) ==
    IF IsReservedName(tool.name)
    THEN LET mcpTool == FindMcpTool(tool.name)
         IN  IF mcpTool = NoRecord THEN << >>
             ELSE << Banner(tool.name, << >>),
                     McpComment(mcpTool),
                     generateFixedMCPToolCode(mcpTool, LocalMcpUrl, mcpTool.parameters),
                     AgentDecl(agentVarName(tool.name), tool.name, tool.description,
                               <<toolFunctionName(tool.name)>>) >>
    ELSE << Banner(tool.name, << >>),
            StoredCode(tool),
            AgentDecl(agentVarName(tool.name), tool.name, tool.description,
                      <<actualToolFuncName(tool.name, tool.code)>>) >>

\* ToolEntries pushing an entry for the plain tools only.
ToolEntriesPlainOnly(tool) ==
    IF IsReservedName(tool.name) THEN << >>
    ELSE << AsTool(agentVarName(tool.name),
                   ReplaceChar(ReplaceChar(DescriptionForExport(tool.name),
                                           "'", <<"\\", "'">>), "\n", <<" ">>)) >>

\* What one element of enabledTools pushes onto externalToolsListEntries.
ToolEntries(tool) ==
    IF IsReservedName(tool.name) /\ FindMcpTool(tool.name) = NoRecord THEN << >>
    ELSE << AsTool(agentVarName(tool.name),
                   ReplaceChar(ReplaceChar(DescriptionForExport(tool.name),
                                           "'", <<"\\", "'">>), "\n", <<" ">>)) >>

\* isMCPGroup that recognizes no group.
isMCPGroupNever(group) == FALSE

\* isMCPGroup: mcpToolNames.some(mcpName => groupToolNames.includes(mcpName))
isMCPGroup(group) ==
    \E i \in 1..Len(group.tools) : IsReservedName(group.tools[i].name)

\* The code written for the members of a group, in member order.
RECURSIVE GroupMemberCode(_, _)
GroupMemberCode(members, mcpGroup) ==
    IF members = << >> THEN << >>
    ELSE LET tool == Head(members)
             mcpTool == IF mcpGroup THEN FindMcpTool(tool.name) ELSE NoRecord
         IN  (IF mcpTool = NoRecord
              THEN <<StoredCode(tool)>>
              ELSE << McpComment(mcpTool),
                      generateFixedMCPToolCode(mcpTool, LocalMcpUrl, mcpTool.parameters) >>)
             \o GroupMemberCode(Tail(members), mcpGroup)

\* toolFunctionNames of a group.
GroupToolFunctionNames(group, mcpGroup) ==
    [i \in 1..Len(group.tools) |->
        IF mcpGroup /\ FindMcpTool(group.tools[i].name) # NoRecord
        THEN toolFunctionName(group.tools[i].name)
        ELSE actualToolFuncName(group.tools[i].name, group.tools[i].code)]

\* The pieces one element of enabledToolGroups appends to pythonFileContent.
GroupSection(group) ==
    LET mcpGroup == isMCPGroup(group)
    IN  << Banner(group.name, <<" ", "T", "o", "o", "l", " ", "G", "r", "o", "u", "p">>) >>
        \o GroupMemberCode(group.tools, mcpGroup)
        \o << AgentDecl(agentVarName(group.name), group.name, group.instructions,
                        GroupToolFunctionNames(group, mcpGroup)) >>

\* What one element of enabledToolGroups pushes onto externalToolsListEntries.
GroupEntries(group) ==
    << AsTool(agentVarName(group.name),
              formatInstructions(DescriptionForExport(group.name))) >>

\* The concatenation of the sequences of a sequence: the pieces in the
\* order the forEach loops append them.
RECURSIVE Flatten(_)
Flatten(seqs) ==
    IF seqs = << >> THEN << >> ELSE Head(seqs) \o Flatten(Tail(seqs))

\* Whether generation calls a method of a NULL code: tool.code.match of a
\* plain standalone tool, tool.code.replace of a group member written from
\* its stored code.
ReadsNullCode(enabledTools, enabledToolGroups) ==
    \/ \E i \in 1..Len(enabledTools) :
          /\ ~IsReservedName(enabledTools[i].name)
          /\ enabledTools[i].code = Null
    \/ \E g \in 1..Len(enabledToolGroups) :
          \E i \in 1..Len(enabledToolGroups[g].tools) :
             LET tool == enabledToolGroups[g].tools[i]
             IN  /\ tool.code = Null
                 /\ ~(isMCPGroup(enabledToolGroups[g]) /\ FindMcpTool(tool.name) # NoRecord)

\* generatePythonAgentFileContent(enabledTools, enabledToolGroups)
generatePythonAgentFileContent(enabledTools, enabledToolGroups) ==
    IF ReadsNullCode(enabledTools, enabledToolGroups)
    THEN TypeError
    ELSE [body |-> << [kind |-> "imports", modules |-> <<"random", "os", "asyncio">>] >>
                   \o Flatten([i \in 1..Len(enabledTools) |-> ToolSection(enabledTools[i])])
                   \o Flatten([i \in 1..Len(enabledToolGroups) |->
                                  GroupSection(enabledToolGroups[i])]),
          external_tools |->
              Flatten([i \in 1..Len(enabledTools) |-> ToolEntries(enabledTools[i])])
              \o Flatten([i \in 1..Len(enabledToolGroups) |->
                             GroupEntries(enabledToolGroups[i])])]


-----------------------------------------------------------------------------
(* The tables, the session and the routes that lead to a generation.        *)

\* Most ids a session list is let grow to.
MaxEnabled == 2

\* Table user_tool_selections: no route writes it.
user_tool_selections == {}

\* Whether name a sorts before or with name b under SQLite's BINARY collation.
RECURSIVE NameLeq(_, _)
NameLeq(a, b) ==
    IF a = << >> THEN TRUE
    ELSE IF b = << >> THEN FALSE
    ELSE IF Head(a) = Head(b) THEN NameLeq(Tail(a), Tail(b))
    ELSE CharCode(Head(a)) < CharCode(Head(b))

\* Every way of listing the elements of a finite set once each.
Orderings(S) ==
    {p \in [1..Cardinality(S) -> S] : \A i, j \in 1..Cardinality(S) : i # j => p[i] # p[j]}

\* SELECT ... ORDER BY name ASC over the given rows: every listing in which
\* the names ascend; rows of equal name come in either order.
OrderByName(rows) ==
    {p \in Orderings(rows) : \A i \in 1..(Len(p) - 1) : NameLeq(p[i].name, p[i + 1].name)}

\* The elements of a sequence.
Range(s) == {s[i] : i \in 1..Len(s)}

\* SELECT id, name, description, code FROM tools WHERE id = ?
ToolRow(id) ==
    [id |-> id, name |-> tools[id].name, description |-> tools[id].description,
     code |-> tools[id].code]

\* The rows of the tools a group holds (JOIN tool_group_tools).
MemberRows(groupId) ==
    {ToolRow(t) : t \in {m \in DOMAIN tools :
                            \E x \in tool_group_tools : x[1] = groupId /\ x[2] = m}}

\* A group row with its tools fetched: one record for each order the member
\* query may give.
GroupRows(groupId) ==
    {[id |-> groupId, name |-> tool_groups[groupId].name,
      instructions |-> tool_groups[groupId].instructions, tools |-> ts] :
        ts \in OrderByName(MemberRows(groupId))}

\* The lists the group queries of update-external may give for the ids.
FetchGroups(ids) ==
    LET candidates == UNION {GroupRows(g) : g \in ids}
        picks == {S \in SUBSET candidates :
                     /\ Cardinality(S) = Cardinality(ids)
                     /\ \A g \in ids : \E r \in S : r.id = g}
    IN  UNION {OrderByName(S) : S \in picks}

\* s.filter(id => id !== x)
Without(s, x) == SelectSeq(s, LAMBDA id : id # x)

\* ON DELETE CASCADE that removes no row.
OnDeleteCascadeNever(rows, column, id) == rows

\* FOREIGN KEY (column) REFERENCES ... ON DELETE CASCADE: the rows of a
\* referring table left when the row id of the referred table is deleted.
OnDeleteCascade(rows, column, id) == {x \in rows : x[column] # id}

\* The id of the user a session has selected, 0 when it has none.
SelectedUser(sess) == IF sess.currentUser = NoRecord THEN 0 ELSE sess.currentUser.id

\* What a request leaves in lastInput: its route, the id it names, the user
\* selected in the requesting session, and that session and the stored
\* selections as the request found them.
Request(route, id) ==
    [route |-> route, id |-> id, user |-> SelectedUser(session), client |-> "own",
     before |-> session, stored |-> user_tool_group_selections]

\* groupSelectionsStmt without `AND enabled = 1`.
groupSelectionsAnyFlag(userId) ==
    {x \in user_tool_group_selections : x[1] = userId}

\* groupSelectionsStmt.all(userId): SELECT tool_group_id FROM
\* user_tool_group_selections WHERE user_id = ? AND enabled = 1
groupSelections(userId) ==
    {x \in user_tool_group_selections : x[1] = userId /\ x[3]}

\* POST /select-user
SelectUser(userId) ==
    /\ lastInput' = Request("select-user", userId)
    /\ IF userId \notin DOMAIN users
       THEN /\ response' = "404"
            /\ UNCHANGED session
       ELSE /\ response' = "302"
            /\ \E ts \in Orderings({r[2] : r \in {x \in user_tool_selections :
                                                    x[1] = userId /\ x[3]}}),
                  gs \in Orderings({r[2] : r \in groupSelections(userId)}) :
                  session' = [currentUser |-> [id |-> userId, name |-> users[userId].name],
                              enabledTools |-> ts,
                              enabledToolGroups |-> gs]
    /\ UNCHANGED <<users, tools, tool_groups, tool_group_tools,
                   user_tool_group_selections, file>>
    /\ UNCHANGED <<fmtVars, callVars, srvVars>>

\* POST /tools/toggle/:id
ToolsToggle(toolId) ==
    /\ lastInput' = Request("tools-toggle", toolId)
    /\ response' = "302"
    /\ IF toolId \in Range(session.enabledTools)
       THEN session' = [session EXCEPT !.enabledTools = Without(@, toolId)]
       ELSE /\ Len(session.enabledTools) < MaxEnabled
            /\ session' = [session EXCEPT !.enabledTools = Append(@, toolId)]
    /\ UNCHANGED <<users, tools, tool_groups, tool_group_tools,
                   user_tool_group_selections, file>>
    /\ UNCHANGED <<fmtVars, callVars, srvVars>>

\* A lookup that leaves out the user: WHERE tool_group_id = ?
currentSelectionAnyUser(userId, groupId) ==
    {r \in user_tool_group_selections : r[2] = groupId}

\* SELECT enabled ... WHERE user_id = ? AND tool_group_id = ?
currentSelection(userId, groupId) ==
    {r \in user_tool_group_selections : r[1] = userId /\ r[2] = groupId}

\* A toggle that switches on whatever is stored.
newEnabledAlways(userId, groupId) == TRUE

\* !currentSelection.enabled, or enabled for a pair without a row.
newEnabled(userId, groupId) == \A r \in currentSelection(userId, groupId) : ~r[3]

\* The table after the UPDATE or the INSERT of the toggle.
ToggledSelections(userId, groupId) ==
    (user_tool_group_selections \ currentSelection(userId, groupId))
        \cup {<<userId, groupId, newEnabled(userId, groupId)>>}

\* POST /tool-groups/toggle/:id: 400 without a selected user; 500 when the
\* INSERT names a group that is not stored (foreign key); otherwise the
\* stored flag is flipped and the session list follows the new flag.
ToolGroupsToggle(groupId) ==
    /\ lastInput' = Request("tool-groups-toggle", groupId)
    /\ IF session.currentUser = NoRecord
       THEN /\ response' = "400"
            /\ UNCHANGED <<session, user_tool_group_selections>>
       ELSE IF groupId \notin DOMAIN tool_groups \/ session.currentUser.id \notin DOMAIN users
       THEN /\ response' = "500"
            /\ UNCHANGED <<session, user_tool_group_selections>>
       ELSE LET userId == session.currentUser.id
            IN  /\ newEnabled(userId, groupId) /\ groupId \notin Range(session.enabledToolGroups)
                      => Len(session.enabledToolGroups) < MaxEnabled
                /\ response' = "302"
                /\ user_tool_group_selections' = ToggledSelections(userId, groupId)
                /\ session' =
                      [session EXCEPT !.enabledToolGroups =
                          IF newEnabled(userId, groupId)
                          THEN IF groupId \in Range(@) THEN @ ELSE Append(@, groupId)
                          ELSE Without(@, groupId)]
    /\ UNCHANGED <<users, tools, tool_groups, tool_group_tools, file>>
    /\ UNCHANGED <<fmtVars, callVars, srvVars>>

\* POST /tools/update-external, generateExternalToolsFile included.
UpdateExternal ==
    /\ \E enabledTools \in OrderByName({ToolRow(t) : t \in Range(session.enabledTools)
                                                         \cap DOMAIN tools}),
          enabledToolGroups \in FetchGroups(Range(session.enabledToolGroups)
                                              \cap DOMAIN tool_groups) :
          LET pythonFileContent ==
                  generatePythonAgentFileContent(enabledTools, enabledToolGroups)
          IN  /\ lastInput' = [enabledTools |-> enabledTools,
                               enabledToolGroups |-> enabledToolGroups]
              /\ IF pythonFileContent = TypeError
                 THEN /\ response' = "500"
                      /\ UNCHANGED file
                 ELSE /\ response' = "302"
                      /\ file' = pythonFileContent
    /\ UNCHANGED <<users, tools, tool_groups, tool_group_tools,
                   user_tool_group_selections, session>>
    /\ UNCHANGED <<fmtVars, callVars, srvVars>>

\* The rows POST /new and POST /new-tool-group can store: two tools of one
\* name, a reserved name with hand-written code, a tool stored without code;
\* two groups holding the reserved tool and one holding none.
StoredTables ==
    /\ users = << [name |-> <<"D", "e", "f", "a", "u", "l", "t", " ", "U", "s", "e", "r">>] >>
    /\ tools =
         << [name |-> <<"R", "a", "n", "d", "o", "m", " ", "N", "u", "m", "b", "e", "r", "!">>,
             description |-> <<"U", "s", "e", " ", "'", "r", "n", "d", "'", "\n", "o", "n",
                               "c", "e">>,
             code |-> <<"d", "e", "f", " ", "r", "n", "d", "(", ")", ":", "\r", "\n", " ",
                        " ", "p", "a", "s", "s">>],
            [name |-> <<"R", "a", "n", "d", "o", "m", " ", "N", "u", "m", "b", "e", "r", "!">>,
             description |-> <<"S", "e", "c", "o", "n", "d">>,
             code |-> <<"x", " ", "=", " ", "1">>],
            [name |-> send_email_tool,
             description |-> <<"S", "e", "n", "d", " ", "\"", "m", "a", "i", "l", "\"">>,
             code |-> <<"d", "e", "f", " ", "m", "a", "i", "l", "(", "t", "o", ")", ":",
                        "\n", " ", " ", "p", "a", "s", "s">>],
            [name |-> <<"N", "u", "l", "l", " ", "C", "o", "d", "e">>,
             description |-> <<"N", "o", " ", "c", "o", "d", "e">>,
             code |-> Null] >>
    /\ tool_groups =
         << [name |-> <<"M", "a", "i", "l", " ", "A">>, instructions |-> <<"M", "a", "i", "l">>],
            [name |-> <<"M", "a", "i", "l", " ", "B">>, instructions |-> <<"M", "a", "i", "l">>],
            [name |-> <<"H", "e", "l", "p", "e", "r", "s">>,
             instructions |-> <<"H", "e", "l", "p">>] >>
    /\ tool_group_tools = {<<1, 1, 1>>, <<1, 3, 1>>, <<2, 3, 1>>, <<3, 1, 1>>, <<3, 2, 1>>}

\* The lists of at most n distinct ids: what toggling leaves in a session.
IdLists(ids, n) ==
    UNION {Orderings(S) : S \in {T \in SUBSET ids : Cardinality(T) <= n}}

\* A session after any toggling, before its first update-external request.
Init ==
    /\ StoredTables
    /\ \E ts \in IdLists(DOMAIN tools, MaxEnabled),
          gs \in IdLists(DOMAIN tool_groups, MaxEnabled) :
          /\ session = [currentUser |-> [id |-> 1, name |-> users[1].name],
                        enabledTools |-> ts, enabledToolGroups |-> gs]
          /\ user_tool_group_selections = {<<1, g, TRUE>> : g \in Range(gs)}
    /\ file = NoRecord
    /\ response = None
    /\ lastInput = NoRecord
    /\ FormatIdle
    /\ CallIdle
    /\ SrvIdle

Next == UpdateExternal

Spec == Init /\ [][Next]_vars

-----------------------------------------------------------------------------
(* Properties of the generated document. After a request answered 302 the   *)
(* file holds the document generated from lastInput.                        *)

\* The pieces of the document of a given kind.
PiecesOf(kind) == {p \in Range(file.body) : p.kind = kind}

\* The standalone rows and the group rows the last request generated from.
Standalone == Range(lastInput.enabledTools)
Groups == Range(lastInput.enabledToolGroups)

\* The function names the header pattern finds anywhere in a code text.
DefinedFunctions(code) ==
    {DefHeaderAt(code, i) : i \in {j \in 1..Len(code) : DefHeaderAt(code, j) # None}}

\* The name of the first function header of a code text that has one.
FirstDefined(code) ==
    DefHeaderAt(code, CHOOSE i \in 1..Len(code) :
                         /\ DefHeaderAt(code, i) # None
                         /\ \A j \in 1..(i - 1) : DefHeaderAt(code, j) = None)

\* Text made of lowercase letters, digits and underscores only.
IsIdentifierText(s) ==
    \A i \in 1..Len(s) : IsLower(s[i]) \/ IsDigit(s[i]) \/ s[i] = "_"

random_number == <<"r", "a", "n", "d", "o", "m", "_", "n", "u", "m", "b", "e", "r">>

\* C1: every enabled tool with a reserved name, standalone or member of an
\* enabled group, has its MCP callable in the document and its stored code
\* nowhere in it; the other members of a group holding a reserved tool are
\* written with their stored code.
C1_ReservedToolsUseTemplate ==
    response = "302" =>
        /\ \A t \in Standalone \cup UNION {Range(g.tools) : g \in Groups} :
              IsReservedName(t.name) =>
                 /\ \E p \in PiecesOf("mcp_function") :
                       p.def = t.name /\ p.call_tool = t.name
                 /\ \A p \in PiecesOf("code") : p.text # NormalizeNewlines(t.code)
        /\ \A g \in Groups :
              (\E r \in Range(g.tools) : IsReservedName(r.name)) =>
                 \A t \in Range(g.tools) :
                    ~IsReservedName(t.name) =>
                       \E p \in PiecesOf("code") : p.text = NormalizeNewlines(t.code)

\* A document generated for the reserved tool enabled standalone and for a
\* group that holds it next to a plain tool.
C1_Witness ==
    /\ response = "302"
    /\ \E t \in Standalone : t.name = send_email_tool
    /\ \E g \in Groups :
          /\ \E t \in Range(g.tools) : t.name = send_email_tool
          /\ \E t \in Range(g.tools) : ~IsReservedName(t.name)

\* C4 as stated: every enabled standalone tool named N whose code defines a
\* function f gets a wrapper toIdentifier(N)_agent with callable list [f]
\* and the export name get_toIdentifier(N)_from_specialist_agent.
C4_Original ==
    response = "302" =>
        \A t \in Standalone :
           t.code # Null /\ DefinedFunctions(t.code) # {} =>
              /\ IsIdentifierText(agentVarName(t.name))
              /\ \E p \in PiecesOf("agent"), f \in DefinedFunctions(t.code) :
                    /\ p.var = agentVarName(t.name) \o <<"_", "a", "g", "e", "n", "t">>
                    /\ p.tools = <<f>>

\* C4, amended: every enabled standalone tool named N whose name is not
\* reserved and whose code has a function header gets a wrapper
\* toIdentifier(N)_agent whose callable list is the name of the first header,
\* and a manifest entry get_toIdentifier(N)_from_specialist_agent;
\* toIdentifier(N) is made of lowercase letters, digits and underscores, and
\* is random_number for "Random Number!".
C4_PlainToolWrapper ==
    response = "302" =>
        \A t \in Standalone :
           ~IsReservedName(t.name) /\ t.code # Null /\ DefinedFunctions(t.code) # {} =>
              LET id == agentVarName(t.name)
              IN  /\ IsIdentifierText(id)
                  /\ t.name = <<"R", "a", "n", "d", "o", "m", " ", "N", "u", "m", "b", "e",
                                "r", "!">> => id = random_number
                  /\ \E p \in PiecesOf("agent") :
                        /\ p.var = id \o <<"_", "a", "g", "e", "n", "t">>
                        /\ p.tools = <<FirstDefined(t.code)>>
                  /\ \E e \in Range(file.external_tools) :
                        /\ e.agent = id \o <<"_", "a", "g", "e", "n", "t">>
                        /\ e.tool_name = <<"g", "e", "t", "_">> \o id
                              \o <<"_", "f", "r", "o", "m", "_", "s", "p", "e", "c", "i", "a",
                                   "l", "i", "s", "t", "_", "a", "g", "e", "n", "t">>

\* A document generated for the standalone tool "Random Number!" whose code
\* defines rnd.
C4_Witness ==
    /\ response = "302"
    /\ \E t \in Standalone :
          /\ t.code # Null
          /\ DefinedFunctions(t.code) # {}
          /\ FirstDefined(t.code) = <<"r", "n", "d">>
    /\ \E p \in PiecesOf("agent") :
          /\ p.var = random_number \o <<"_", "a", "g", "e", "n", "t">>
          /\ p.tools = << <<"r", "n", "d">> >>

\* C5 as stated: for every enabled standalone tool with a name that is not
\* reserved and a code value without a function header, NULL included, the
\* request generates a document whose wrapper for it lists exactly the
\* fallback _toIdentifier(name)_tool_func.
C5_Original ==
    lastInput # NoRecord =>
        \A t \in Standalone :
           ~IsReservedName(t.name) /\ (t.code = Null \/ DefinedFunctions(t.code) = {}) =>
              /\ response = "302"
              /\ \E p \in PiecesOf("agent") :
                    /\ p.var = agentVarName(t.name) \o <<"_", "a", "g", "e", "n", "t">>
                    /\ p.tools = << <<"_">> \o agentVarName(t.name)
                                      \o <<"_", "t", "o", "o", "l", "_", "f", "u", "n", "c">> >>

\* C6: the manifest holds one entry for each standalone tool, in input
\* order, followed by one entry for each group, in input order, and nothing
\* else.
C6_ManifestEntries ==
    response = "302" =>
        LET nTools == Len(lastInput.enabledTools)
            nGroups == Len(lastInput.enabledToolGroups)
        IN  /\ Len(file.external_tools) = nTools + nGroups
            /\ \A i \in 1..nTools :
                  file.external_tools[i].agent =
                     agentVarName(lastInput.enabledTools[i].name)
                        \o <<"_", "a", "g", "e", "n", "t">>
            /\ \A i \in 1..nGroups :
                  file.external_tools[nTools + i].agent =
                     agentVarName(lastInput.enabledToolGroups[i].name)
                        \o <<"_", "a", "g", "e", "n", "t">>

\* A document generated for two standalone tools, the reserved one among
\* them, and a group.
C6_Witness ==
    /\ response = "302"
    /\ Len(lastInput.enabledTools) = 2
    /\ \E t \in Standalone : IsReservedName(t.name)
    /\ Len(lastInput.enabledToolGroups) >= 1
    /\ Len(file.external_tools) >= 3

\* C7 as stated: for the enabled sets of the session, every list the queries
\* can hand to the generator yields the document now in the file, so the
\* output is the same on every call.
C7_Original ==
    response = "302" =>
        \A enabledTools \in OrderByName({ToolRow(t) : t \in Range(session.enabledTools)}),
           enabledToolGroups \in FetchGroups(Range(session.enabledToolGroups)) :
           generatePythonAgentFileContent(enabledTools, enabledToolGroups) = file

C10_Original ==
    response = "302" =>
        ((\E g, h \in Groups :
             /\ g.name # h.name
             /\ \E t \in Range(g.tools) : t.name = send_email_tool
             /\ \E t \in Range(h.tools) : t.name = send_email_tool)
         => \A i, j \in DOMAIN file.body :
               (/\ i # j
                /\ file.body[i].kind = "mcp_function"
                /\ file.body[j].kind = "mcp_function")
               => file.body[i].def # file.body[j].def)

-----------------------------------------------------------------------------
(* update-external requests of several sessions against the one file. The   *)
(* handler is synchronous: once the event loop has started it for a request *)
(* it runs to its response before any other handler starts. Its file write, *)
(* fs.writeFileSync, opens the file truncating it and then writes.          *)

\* Most requests accepted and not yet answered.
MaxRequests == 2

\* The enabled lists of the sessions that send requests: one of a plain
\* tool, one of the reserved tool and a group, one of the tool without code.
ClientSessions ==
    {[enabledTools |-> <<1>>, enabledToolGroups |-> << >>],
     [enabledTools |-> <<3>>, enabledToolGroups |-> <<2>>],
     [enabledTools |-> <<4>>, enabledToolGroups |-> << >>]}

\* The file right after it was opened for writing.
Truncated == [body |-> << >>]

\* A function with one more point.
Extend(f, k, v) == [x \in DOMAIN f \cup {k} |-> IF x = k THEN v ELSE f[x]]

\* A function with one point less.
Drop(f, k) == [x \in DOMAIN f \ {k} |-> f[x]]

\* An event loop that starts a handler while another one is under way.
RunToCompletionNever(r) == TRUE

\* Whether the event loop can start the handler of request r: no handler of
\* another request is between its first statement and its response.
RunToCompletion(r) ==
    \A q \in DOMAIN inflight \ {r} : inflight[q].pc = "accepted"

\* The server accepts a request of some session.
Accept(r, s) ==
    /\ r \notin DOMAIN inflight
    /\ inflight' = Extend(inflight, r, [pc |-> "accepted", session |-> s, doc |-> NoRecord])
    /\ UNCHANGED <<oauth_clients, completed, issued, entropy, discovery,
                   temp_mcp_discover, sqlite_sequence>>
    /\ UNCHANGED <<genVars, fmtVars, callVars>>

\* The handler starts: the queries and generatePythonAgentFileContent.
Generate(r) ==
    /\ r \in DOMAIN inflight
    /\ inflight[r].pc = "accepted"
    /\ RunToCompletion(r)
    /\ \E enabledTools \in OrderByName({ToolRow(t) :
                                           t \in Range(inflight[r].session.enabledTools)}),
          enabledToolGroups \in FetchGroups(Range(inflight[r].session.enabledToolGroups)) :
          LET pythonFileContent ==
                  generatePythonAgentFileContent(enabledTools, enabledToolGroups)
          IN  inflight' = [inflight EXCEPT ![r] =
                              IF pythonFileContent = TypeError
                              THEN [@ EXCEPT !.pc = "threw"]
                              ELSE [@ EXCEPT !.pc = "generated", !.doc = pythonFileContent]]
    /\ UNCHANGED <<oauth_clients, completed, issued, entropy, discovery,
                   temp_mcp_discover, sqlite_sequence>>
    /\ UNCHANGED <<genVars, fmtVars, callVars>>

\* fs.writeFileSync, first half: the file is opened with flag 'w'.
OpenFile(r) ==
    /\ r \in DOMAIN inflight
    /\ inflight[r].pc = "generated"
    /\ file' = Truncated
    /\ inflight' = [inflight EXCEPT ![r].pc = "opened"]
    /\ UNCHANGED <<oauth_clients, completed, issued, entropy, discovery,
                   temp_mcp_discover, sqlite_sequence>>
    /\ UNCHANGED <<users, tools, tool_groups, tool_group_tools,
                   user_tool_group_selections, session, response, lastInput>>
    /\ UNCHANGED <<fmtVars, callVars>>

\* fs.writeFileSync, second half: the content is written and the file closed.
WriteFile(r) ==
    /\ r \in DOMAIN inflight
    /\ inflight[r].pc = "opened"
    /\ file' = inflight[r].doc
    /\ inflight' = [inflight EXCEPT ![r].pc = "written"]
    /\ UNCHANGED <<oauth_clients, completed, issued, entropy, discovery,
                   temp_mcp_discover, sqlite_sequence>>
    /\ UNCHANGED <<users, tools, tool_groups, tool_group_tools,
                   user_tool_group_selections, session, response, lastInput>>
    /\ UNCHANGED <<fmtVars, callVars>>

\* res.redirect(...): the request is answered 302.
Redirect(r) ==
    /\ r \in DOMAIN inflight
    /\ inflight[r].pc = "written"
    /\ response' = "302"
    /\ completed' = inflight[r].doc
    /\ inflight' = Drop(inflight, r)
    /\ UNCHANGED <<oauth_clients, issued, entropy, discovery,
                   temp_mcp_discover, sqlite_sequence>>
    /\ UNCHANGED <<users, tools, tool_groups, tool_group_tools,
                   user_tool_group_selections, session, file, lastInput>>
    /\ UNCHANGED <<fmtVars, callVars>>

\* catch (error): the request is answered 500.
Fail(r) ==
    /\ r \in DOMAIN inflight
    /\ inflight[r].pc = "threw"
    /\ response' = "500"
    /\ inflight' = Drop(inflight, r)
    /\ UNCHANGED <<oauth_clients, completed, issued, entropy, discovery,
                   temp_mcp_discover, sqlite_sequence>>
    /\ UNCHANGED <<users, tools, tool_groups, tool_group_tools,
                   user_tool_group_selections, session, file, lastInput>>
    /\ UNCHANGED <<fmtVars, callVars>>

InitFile ==
    /\ StoredTables
    /\ user_tool_group_selections = {}
    /\ session = [currentUser |-> NoRecord, enabledTools |-> << >>, enabledToolGroups |-> << >>]
    /\ file = NoRecord
    /\ response = None
    /\ lastInput = NoRecord
    /\ FormatIdle
    /\ CallIdle
    /\ SrvIdle

NextFile ==
    \E r \in 1..MaxRequests :
        \/ \E s \in ClientSessions : Accept(r, s)
        \/ Generate(r)
        \/ OpenFile(r)
        \/ WriteFile(r)
        \/ Redirect(r)
        \/ Fail(r)

SpecFile == InitFile /\ [][NextFile]_vars

\* No handler is between its first statement and its response.
EventLoopIdle == \A r \in DOMAIN inflight : inflight[r].pc = "accepted"

-----------------------------------------------------------------------------
(* The Python function generateFixedMCPToolCode writes, run by the thread   *)
(* that calls it. A step is one statement of its body.                      *)

\* Number of distinct values the remote operation may hand back.
MaxResult == 2

\* from fastmcp import Client, when the package is missing.
ImportError ==
    [class |-> "ImportError", message |-> "No module named 'fastmcp'"]

\* asyncio.get_running_loop() in a thread that runs no loop.
NoRunningLoop ==
    [class |-> "RuntimeError", message |-> "no running event loop"]

\* executor.submit when the worker thread cannot be started.
CannotStartThread ==
    [class |-> "RuntimeError", message |-> "can't start new thread"]

\* asyncio.run() in a thread whose event loop is running.
RunInsideLoop ==
    [class |-> "RuntimeError",
     message |-> "asyncio.run() cannot be called from a running event loop"]

\* What the body of the inner coroutine (Client(...), async with client,
\* call_tool) can end with: a result, or an exception of either class the
\* two except clauses tell apart.
RemoteOutcomes ==
    {[ok |-> TRUE, result |-> r] : r \in 1..MaxResult}
    \cup {[ok |-> FALSE, error |-> [class |-> "RuntimeError",
                                    message |-> "Client failed to connect"]],
          [ok |-> FALSE, error |-> [class |-> "ToolError",
                                    message |-> "Error calling tool"]]}

\* The situations a call can be made in.
Environments ==
    [tool : {get_email_body, get_recent_emails_summary, send_email_tool},
     loopRunning : BOOLEAN,
     importOk : BOOLEAN,
     threadOk : BOOLEAN,
     remote : RemoteOutcomes]

\* str(result)
Str(result) == [str |-> result]

\* f"Error calling MCP tool '${tool.name}': {str(e)}"
ErrorString(name, e) ==
    [text |-> "Error calling MCP tool '", tool |-> name, sep |-> "': ",
     message |-> e.message]

\* asyncio.get_running_loop() that finds no loop in any thread.
get_running_loop_never(loopRunning) == FALSE

\* asyncio.get_running_loop(): whether it hands back a loop (it raises
\* RuntimeError otherwise).
get_running_loop(loopRunning) == loopRunning

\* The caller invokes the function.
Call(e) ==
    /\ pc \in {"idle", "done"}
    /\ pc' = "import"
    /\ env' = e
    /\ runs' = 0
    /\ raised' = NoRecord
    /\ ret' = NoRecord
    /\ UNCHANGED <<fmtVars, genVars, srvVars>>

\* from fastmcp import Client; import asyncio; async def ...
Import ==
    /\ pc = "import"
    /\ IF env.importOk
       THEN pc' = "get_running_loop" /\ UNCHANGED raised
       ELSE pc' = "except_Exception" /\ raised' = ImportError
    /\ UNCHANGED <<env, runs, ret, fmtVars, genVars, srvVars>>

\* loop = asyncio.get_running_loop()
GetRunningLoop ==
    /\ pc = "get_running_loop"
    /\ IF get_running_loop(env.loopRunning)
       THEN pc' = "submit" /\ UNCHANGED raised
       ELSE pc' = "except_RuntimeError" /\ raised' = NoRunningLoop
    /\ UNCHANGED <<env, runs, ret, fmtVars, genVars, srvVars>>

\* future = executor.submit(asyncio.run, coroutine)
Submit ==
    /\ pc = "submit"
    /\ IF env.threadOk
       THEN pc' = "worker" /\ UNCHANGED raised
       ELSE pc' = "except_RuntimeError" /\ raised' = CannotStartThread
    /\ UNCHANGED <<env, runs, ret, fmtVars, genVars, srvVars>>

\* The worker thread: asyncio.run(coroutine) on a loop of its own, while the
\* calling thread waits in future.result().
Worker ==
    /\ pc = "worker"
    /\ runs' = runs + 1
    /\ pc' = "future_result"
    /\ UNCHANGED <<env, raised, ret, fmtVars, genVars, srvVars>>

\* return future.result(): the worker's result, or its exception raised anew
\* inside the inner try.
FutureResult ==
    /\ pc = "future_result"
    /\ IF env.remote.ok
       THEN /\ ret' = Str(env.remote.result)
            /\ pc' = "done"
            /\ UNCHANGED raised
       ELSE /\ raised' = env.remote.error
            /\ pc' = IF env.remote.error.class = "RuntimeError"
                     THEN "except_RuntimeError" ELSE "except_Exception"
            /\ UNCHANGED ret
    /\ UNCHANGED <<env, runs, fmtVars, genVars, srvVars>>

\* except RuntimeError: return asyncio.run(coroutine)
ExceptRuntimeError ==
    /\ pc = "except_RuntimeError"
    /\ IF env.loopRunning
       THEN /\ raised' = RunInsideLoop
            /\ pc' = "except_Exception"
            /\ UNCHANGED <<runs, ret>>
       ELSE /\ runs' = runs + 1
            /\ IF env.remote.ok
               THEN /\ ret' = Str(env.remote.result)
                    /\ pc' = "done"
                    /\ raised' = NoRecord
               ELSE /\ raised' = env.remote.error
                    /\ pc' = "except_Exception"
                    /\ UNCHANGED ret
    /\ UNCHANGED <<env, fmtVars, genVars, srvVars>>

\* except Exception as e: return f"Error calling MCP tool ..."
ExceptException ==
    /\ pc = "except_Exception"
    /\ ret' = ErrorString(env.tool, raised)
    /\ raised' = NoRecord
    /\ pc' = "done"
    /\ UNCHANGED <<env, runs, fmtVars, genVars, srvVars>>

InitCallable ==
    /\ CallIdle
    /\ FormatIdle
    /\ GenIdle
    /\ SrvIdle

Step ==
    \/ Import
    \/ GetRunningLoop
    \/ Submit
    \/ Worker
    \/ FutureResult
    \/ ExceptRuntimeError
    \/ ExceptException

NextCallable ==
    \/ \E e \in Environments : Call(e)
    \/ Step

\* Every thread that has entered the function keeps being scheduled, and the
\* remote operation ends (with a result or with an exception).
SpecCallable == InitCallable /\ [][NextCallable]_vars /\ WF_vars(Step)

-----------------------------------------------------------------------------
(* Properties of a call of the generated function.                          *)

\* The first thing to fail in a call made in situation e, NoRecord when
\* nothing does: the import, the start of the worker thread, or the remote
\* operation.
ActualFailure(e) ==
    IF ~e.importOk THEN ImportError
    ELSE IF e.loopRunning /\ ~e.threadOk THEN CannotStartThread
    ELSE IF ~e.remote.ok THEN e.remote.error
    ELSE NoRecord

\* C2: with or without a running event loop, every call ends and hands a
\* value back; the body of the inner coroutine runs at most once in a call;
\* when the remote operation gives a result and nothing else fails, the value
\* handed back is str(result).
C2_TerminatesWithOutcome ==
    /\ [](runs <= 1)
    /\ [](pc = "done" => ret # NoRecord)
    /\ [](pc = "done" /\ ActualFailure(env) = NoRecord
            => runs = 1 /\ ret = Str(env.remote.result))
    /\ [](pc = "done" /\ env.importOk /\ (env.loopRunning => env.threadOk) => runs = 1)
    /\ (pc = "import" ~> pc = "done")

\* A call made under a running event loop has ended with the stringified
\* result of the one run of the coroutine.
C2_Witness ==
    /\ pc = "done"
    /\ env.loopRunning
    /\ runs = 1
    /\ env.remote.ok
    /\ ret = Str(env.remote.result)

\* C3 as stated: a call in which something failed ends with the error string
\* that names the tool and carries the message of that failure.
C3_Original ==
    pc = "done" /\ ActualFailure(env) # NoRecord
        => ret = ErrorString(env.tool, ActualFailure(env))

-----------------------------------------------------------------------------
(* POST /api/mcp-server/discover: the handler, the python process it spawns *)
(* and the 30 second timer.                                                 *)

\* Most tools a discovered server reports.
MaxDiscovered == 2

\* What the script prints for a server with n tools, cut in chunks as the
\* pipe delivers them, and what a broken script prints.
Outputs ==
    {<< <<"{", "t", "o", "o", "l", "s", ":", n, "}">> >> : n \in 0..MaxDiscovered}
    \cup {<< <<"{", "t", "o", "o">>, <<"l", "s", ":", n, "}">> >> : n \in 0..MaxDiscovered}
    \cup {<< <<"T", "r", "a", "c", "e", "b", "a", "c", "k">> >>, << >>}

\* How the spawned process behaves: whether it can be started at all,
\* whether it ever ends by itself, its exit code and its output.
ProcessBehaviours ==
    [started : BOOLEAN, ends : BOOLEAN, code : {0, 1}, output : Outputs]

\* JSON.parse(stdout): the object, or NoRecord where it throws.
JSONparse(stdout) ==
    IF /\ Len(stdout) = 9
       /\ SubSeq(stdout, 1, 7) = <<"{", "t", "o", "o", "l", "s", ":">>
       /\ stdout[9] = "}"
    THEN [success |-> TRUE, tools |-> stdout[8]]
    ELSE NoRecord

\* The response the close handler sends for an exit code and the collected
\* output.
CloseResponse(code, stdout) ==
    IF code = 0
    THEN IF JSONparse(stdout) # NoRecord
         THEN [status |-> 200, body |-> JSONparse(stdout)]
         ELSE [status |-> 500, body |-> [success |-> FALSE,
                                         error |-> "Failed to parse MCP discovery result"]]
    ELSE [status |-> 500, body |-> [success |-> FALSE,
                                    error |-> "Failed to discover MCP server tools"]]

\* if (!responseCompleted) that lets every callback send.
MaySendAlways(d) == TRUE

\* if (!responseCompleted): the callback may send the response.
MaySend(d) == ~d.responseCompleted

\* The request arrives and the handler runs to its end: it answers 400
\* without a server URL; otherwise it writes the script, spawns python,
\* registers the listeners and arms the timer.
Discover(serverUrl, b) ==
    /\ IF discovery = NoRecord THEN TRUE
       ELSE /\ discovery.server = "up"
            /\ discovery.answer # NoRecord
            /\ discovery.proc \in {"none", "closed"}
    /\ discovery' =
          IF ~serverUrl
          THEN [serverUrl |-> FALSE, server |-> "up", behaviour |-> b, proc |-> "none",
                spawned |-> 0, stdout |-> << >>, printed |-> 0, timer |-> "none",
                responseCompleted |-> FALSE, responses |-> 1,
                answer |-> [status |-> 400,
                            body |-> [success |-> FALSE, error |-> "Server URL is required"]]]
          ELSE [serverUrl |-> TRUE, server |-> "up", behaviour |-> b,
                proc |-> IF b.started THEN "running" ELSE "spawn_failed",
                spawned |-> 1, stdout |-> << >>, printed |-> 0, timer |-> "armed",
                responseCompleted |-> FALSE, responses |-> 0, answer |-> NoRecord]
    /\ temp_mcp_discover' = IF serverUrl THEN "written" ELSE temp_mcp_discover
    /\ UNCHANGED <<oauth_clients, inflight, completed, issued, entropy, sqlite_sequence>>
    /\ UNCHANGED <<genVars, fmtVars, callVars>>

\* pythonProcess.stdout.on('data'): one more chunk of output is collected.
StdoutData ==
    /\ discovery # NoRecord
    /\ discovery.proc = "running"
    /\ discovery.printed < Len(discovery.behaviour.output)
    /\ discovery' = [discovery EXCEPT
                        !.printed = @ + 1,
                        !.stdout = @ \o discovery.behaviour.output[discovery.printed + 1]]
    /\ UNCHANGED <<oauth_clients, inflight, completed, issued, entropy, sqlite_sequence,
                   temp_mcp_discover>>
    /\ UNCHANGED <<genVars, fmtVars, callVars>>

\* pythonProcess.on('close'), both listeners: the process has ended by
\* itself, all output delivered, or after it was killed.
Close ==
    /\ discovery # NoRecord
    /\ \/ /\ discovery.proc = "running"
          /\ discovery.behaviour.ends
          /\ discovery.printed = Len(discovery.behaviour.output)
       \/ discovery.proc = "killed"
    /\ discovery' = [discovery EXCEPT
                        !.proc = "closed",
                        !.responseCompleted = TRUE,
                        !.responses = IF MaySend(discovery) THEN @ + 1 ELSE @,
                        !.answer = IF MaySend(discovery)
                                   THEN CloseResponse(discovery.behaviour.code, discovery.stdout)
                                   ELSE @,
                        !.timer = IF @ = "armed" THEN "cleared" ELSE @]
    /\ temp_mcp_discover' = "absent"
    /\ UNCHANGED <<oauth_clients, inflight, completed, issued, entropy, sqlite_sequence>>
    /\ UNCHANGED <<genVars, fmtVars, callVars>>

\* The setTimeout callback, 30 seconds after the spawn; the 'error' event of
\* a failed spawn is emitted on the next tick, long before.
Timeout ==
    /\ discovery # NoRecord
    /\ discovery.server = "up"
    /\ discovery.timer = "armed"
    /\ discovery.proc # "spawn_failed"
    /\ discovery' =
          IF ~MaySend(discovery)
          THEN [discovery EXCEPT !.timer = "fired"]
          ELSE [discovery EXCEPT
                   !.timer = "fired",
                   !.responseCompleted = TRUE,
                   !.responses = @ + 1,
                   !.proc = IF @ = "running" THEN "killed" ELSE @,
                   !.answer = [status |-> 500,
                               body |-> [success |-> FALSE,
                                         error |-> "MCP server discovery timed out"]]]
    /\ UNCHANGED <<oauth_clients, inflight, completed, issued, entropy, sqlite_sequence,
                   temp_mcp_discover>>
    /\ UNCHANGED <<genVars, fmtVars, callVars>>

\* The 'error' event of a process that could not be started (python not on
\* the PATH): the handler registered no 'error' listener, so the event is
\* thrown as an uncaught exception and the server process ends.
SpawnError ==
    /\ discovery # NoRecord
    /\ discovery.server = "up"
    /\ discovery.proc = "spawn_failed"
    /\ discovery' = [discovery EXCEPT !.server = "crashed", !.proc = "none"]
    /\ UNCHANGED <<oauth_clients, inflight, completed, issued, entropy, sqlite_sequence,
                   temp_mcp_discover>>
    /\ UNCHANGED <<genVars, fmtVars, callVars>>

InitDiscover ==
    /\ GenIdle
    /\ FormatIdle
    /\ CallIdle
    /\ SrvIdle

Events ==
    \/ StdoutData
    \/ Close
    \/ Timeout
    \/ SpawnError

NextDiscover ==
    \/ \E serverUrl \in BOOLEAN, b \in ProcessBehaviours : Discover(serverUrl, b)
    \/ Events

\* Timers fire, pipes deliver and a process that ends is reported closed.
SpecDiscover == InitDiscover /\ [][NextDiscover]_vars /\ WF_vars(Events)

\* A request that supplied a server URL has not been answered yet.
DiscoveryPending ==
    IF discovery = NoRecord THEN FALSE
    ELSE discovery.serverUrl /\ discovery.answer = NoRecord

\* The request has been answered.
DiscoveryAnswered ==
    IF discovery = NoRecord THEN FALSE ELSE discovery.answer # NoRecord

\* The parts of C12 about the answers given: one process per request, the
\* timeout answer, and a failure answer for a failed or unparsable run.
C12_Answers ==
    IF discovery = NoRecord THEN TRUE
    ELSE /\ discovery.spawned <= 1
         /\ (discovery.timer = "fired" /\ discovery.proc = "killed")
               => (discovery.answer.body.error = "MCP server discovery timed out")
         /\ (/\ discovery.proc = "closed"
             /\ discovery.timer = "cleared"
             /\ (discovery.behaviour.code # 0 \/ JSONparse(discovery.stdout) = NoRecord))
               => (discovery.answer.status = 500)

\* C12 as stated: every discovery request that supplies a server URL is
\* eventually answered; the answer given at the timeout is the failure
\* 'MCP server discovery timed out' and the process is then killed; a
\* process that exits non-zero or prints unparsable output gets a failure
\* answer; no request spawns more than one process.
C12_Original ==
    /\ []C12_Answers
    /\ (DiscoveryPending ~> DiscoveryAnswered)

\* The answer the timer callback sends.
TimedOut ==
    [status |-> 500,
     body |-> [success |-> FALSE, error |-> "MCP server discovery timed out"]]

\* C25: a discovery request gets at most one response, whichever of the
\* close event and the timeout comes first: after the timeout has answered,
\* the close handler sends nothing; a close that comes first answers,
\* cancels the timer, and the timer callback never runs.
C25_AtMostOneResponse ==
    IF discovery = NoRecord THEN TRUE
    ELSE /\ discovery.responses <= 1
         /\ (discovery.responses = 1) <=> (discovery.answer # NoRecord)
         /\ discovery.proc = "closed" => discovery.timer \in {"cleared", "fired"}
         /\ discovery.timer = "cleared" =>
               discovery.answer = CloseResponse(discovery.behaviour.code, discovery.stdout)
         /\ (discovery.timer = "fired" /\ discovery.proc = "closed") =>
               discovery.answer = TimedOut

\* The timeout answered and killed the process, and the close event of the
\* killed process has been handled after it.
C25_Witness ==
    IF discovery = NoRecord THEN FALSE
    ELSE /\ discovery.timer = "fired"
         /\ discovery.proc = "closed"
         /\ discovery.responses = 1

-----------------------------------------------------------------------------
(* Discovery requests that overlap. Every request writes the script to the  *)
(* one path temp_mcp_discover.py and every close handler unlinks that path. *)
(* The servers answer well within the 30 seconds, so no timer fires.        *)

\* The python runs of the overlapping requests: started, ending by
\* themselves, their output in one chunk.
OverlappingBehaviours ==
    {b \in ProcessBehaviours : b.started /\ b.ends /\ Len(b.output) = 1}

\* The request arrives with a server URL: fs.writeFileSync of the script,
\* spawn, the listeners and the timer.
DiscoverOverlapping(r, b) ==
    /\ r \notin DOMAIN inflight
    /\ temp_mcp_discover' = "written"
    /\ inflight' = Extend(inflight, r,
                          [behaviour |-> b, proc |-> "spawned", timer |-> "armed",
                           responseCompleted |-> FALSE, responses |-> 0,
                           answer |-> NoRecord])
    /\ UNCHANGED <<oauth_clients, completed, issued, entropy, discovery, sqlite_sequence>>
    /\ UNCHANGED <<genVars, fmtVars, callVars>>

\* The spawned interpreter opens the script it was given as argv[1]: it
\* reads it and runs it, or finds no file and exits with code 2.
PythonOpensScript(r) ==
    /\ r \in DOMAIN inflight
    /\ inflight[r].proc = "spawned"
    /\ inflight' = [inflight EXCEPT ![r].proc =
                       IF temp_mcp_discover = "written" THEN "running" ELSE "no_script"]
    /\ UNCHANGED <<oauth_clients, completed, issued, entropy, discovery, sqlite_sequence,
                   temp_mcp_discover>>
    /\ UNCHANGED <<genVars, fmtVars, callVars>>

\* pythonProcess.on('close'), both listeners, all output delivered: the
\* unlink of the script (a failure of it is swallowed), the response, and
\* clearTimeout.
CloseOverlapping(r) ==
    /\ r \in DOMAIN inflight
    /\ inflight[r].proc \in {"running", "no_script"}
    /\ LET code == IF inflight[r].proc = "running" THEN inflight[r].behaviour.code ELSE 2
           stdout == IF inflight[r].proc = "running"
                     THEN Flatten(inflight[r].behaviour.output) ELSE << >>
       IN  inflight' = [inflight EXCEPT
                           ![r].proc = "closed",
                           ![r].responseCompleted = TRUE,
                           ![r].responses = IF MaySend(inflight[r]) THEN @ + 1 ELSE @,
                           ![r].answer = IF MaySend(inflight[r])
                                         THEN CloseResponse(code, stdout) ELSE @,
                           ![r].timer = "cleared"]
    /\ temp_mcp_discover' = "absent"
    /\ UNCHANGED <<oauth_clients, completed, issued, entropy, discovery, sqlite_sequence>>
    /\ UNCHANGED <<genVars, fmtVars, callVars>>

InitOverlapping ==
    /\ GenIdle
    /\ FormatIdle
    /\ CallIdle
    /\ SrvIdle

NextOverlapping ==
    \/ \E r \in 1..MaxRequests, b \in OverlappingBehaviours : DiscoverOverlapping(r, b)
    \/ \E r \in 1..MaxRequests : PythonOpensScript(r)
    \/ \E r \in 1..MaxRequests : CloseOverlapping(r)

SpecOverlapping == InitOverlapping /\ [][NextOverlapping]_vars

\* C29 as stated: while the interpreter of a request has not yet opened the
\* script, the script written for it is in place, and every request is
\* answered with what its own server and run give.
C29_Original ==
    \A r \in DOMAIN inflight :
        /\ inflight[r].proc = "spawned" => temp_mcp_discover = "written"
        /\ inflight[r].answer # NoRecord =>
              inflight[r].answer =
                 CloseResponse(inflight[r].behaviour.code,
                               Flatten(inflight[r].behaviour.output))

-----------------------------------------------------------------------------
(* The users routes: GET /users/:id/oauth-secret, POST /create-user and     *)
(* POST /delete-user/:id over the users and oauth_clients tables.           *)

\* Most secrets the secret route generates in one behaviour.
MaxSecrets == 3

\* Ids the requests name: the stored users and one that was never stored.
UserIds == 1..3

Alice == <<"A", "l", "i", "c", "e">>
DefaultUser == <<"D", "e", "f", "a", "u", "l", "t", " ", "U", "s", "e", "r">>

\* `ally_agent_user_${user.id}`
clientId(userId) == <<"ally_agent_user_", userId>>

\* A generator that returns the same bytes on every call.
randomBytesRepeating(e) == 1

\* crypto.randomBytes(32): bytes no earlier call has returned; e counts the
\* calls made so far.
randomBytes(e) == e + 1

\* bcrypt.hash(secret, 10) and bcrypt.compare(secret, hash).
bcryptHash(secret) == [bcrypt |-> secret]
bcryptCompare(secret, hash) == hash = [bcrypt |-> secret]

\* The database after start-up: the default user and a user of an earlier
\* run, each given one OAuth client with a generated secret.
InitUsers ==
    /\ users = << [name |-> DefaultUser], [name |-> Alice] >>
    /\ tools = << >>
    /\ tool_groups = << >>
    /\ tool_group_tools = {}
    /\ user_tool_group_selections = {}
    /\ session \in {[currentUser |-> NoRecord, enabledTools |-> << >>,
                     enabledToolGroups |-> << >>],
                    [currentUser |-> [id |-> 2, name |-> Alice], enabledTools |-> << >>,
                     enabledToolGroups |-> << >>]}
    /\ file = NoRecord
    /\ response = None
    /\ lastInput = NoRecord
    /\ oauth_clients = {[client_id |-> clientId(u), user_id |-> u,
                         client_secret_hash |-> bcryptHash(randomBytes(u - 1))] : u \in 1..2}
    /\ entropy = 2
    /\ inflight = << >>
    /\ issued = << >>
    /\ completed = NoRecord
    /\ discovery = NoRecord
    /\ temp_mcp_discover = "absent"
    /\ sqlite_sequence = [users |-> Len(users), tools |-> Len(tools),
                          tool_groups |-> Len(tool_groups)]
    /\ FormatIdle
    /\ CallIdle

\* GET /users/:id/oauth-secret up to its await: 404 without a client of the
\* user, otherwise a new secret is generated and bcrypt starts hashing it.
RotateBegin(r, userId) ==
    /\ r \notin DOMAIN inflight
    /\ LET client == {c \in oauth_clients : c.user_id = userId}
       IN  IF client = {}
           THEN /\ response' = "404"
                /\ lastInput' = [route |-> "oauth-secret", userId |-> userId]
                /\ UNCHANGED <<inflight, entropy>>
           ELSE /\ entropy < 2 + MaxSecrets
                /\ \E c \in client :
                      inflight' = Extend(inflight, r,
                                         [userId |-> userId, client_id |-> c.client_id,
                                          newClientSecret |-> randomBytes(entropy)])
                /\ entropy' = entropy + 1
                /\ UNCHANGED <<response, lastInput>>
    /\ UNCHANGED <<oauth_clients, issued, completed, discovery,
                   temp_mcp_discover, sqlite_sequence>>
    /\ UNCHANGED <<users, tools, tool_groups, tool_group_tools,
                   user_tool_group_selections, session, file>>
    /\ UNCHANGED <<fmtVars, callVars>>

\* The rest of the handler, once the hash is there: the UPDATE and the
\* response that carries the plaintext.
RotateFinish(r) ==
    /\ r \in DOMAIN inflight
    /\ LET q == inflight[r]
       IN  /\ oauth_clients' =
                 {IF c.user_id = q.userId
                  THEN [c EXCEPT !.client_secret_hash = bcryptHash(q.newClientSecret)]
                  ELSE c : c \in oauth_clients}
           /\ issued' = Append(issued, [client_id |-> q.client_id,
                                        client_secret |-> q.newClientSecret])
           /\ lastInput' = [route |-> "oauth-secret", userId |-> q.userId]
    /\ response' = "200"
    /\ inflight' = Drop(inflight, r)
    /\ UNCHANGED <<entropy, completed, discovery,
                   temp_mcp_discover, sqlite_sequence>>
    /\ UNCHANGED <<users, tools, tool_groups, tool_group_tools,
                   user_tool_group_selections, session, file>>
    /\ UNCHANGED <<fmtVars, callVars>>

\* The names a create-user form can post: none, empty, blank, a new name
\* with and without surrounding spaces, and a name already stored.
UserNames ==
    {Null, << >>, <<" ">>, <<"B", "o", "b">>, <<" ", "B", "o", "b", " ">>, Alice}

\* POST /create-user: 400 for a missing or blank name. Otherwise the handler
\* builds the transaction function with db.transaction(async () => ...) and
\* awaits that function value without ever calling it, so none of the
\* INSERTs inside runs, and then redirects to /users.
CreateUser(userName) ==
    /\ lastInput' = [route |-> "create-user", userName |-> userName]
    /\ response' = IF userName = Null THEN "400"
                   ELSE IF Trim(userName) = << >> THEN "400"
                   ELSE "302"
    /\ UNCHANGED <<users, oauth_clients, session>>
    /\ UNCHANGED <<inflight, issued, entropy, completed, discovery,
                   temp_mcp_discover, sqlite_sequence>>
    /\ UNCHANGED <<tools, tool_groups, tool_group_tools, user_tool_group_selections, file>>
    /\ UNCHANGED <<fmtVars, callVars>>

\* POST /delete-user/:id: the session is cleared when it names the user,
\* then the DELETE, which cascades to the user's rows of oauth_clients and
\* user_tool_group_selections; 404 when no row was deleted.
DeleteUser(userId) ==
    /\ lastInput' = Request("delete-user", userId)
    /\ session' = IF session.currentUser = NoRecord THEN session
                  ELSE IF session.currentUser.id = userId
                       THEN [currentUser |-> NoRecord, enabledTools |-> << >>,
                             enabledToolGroups |-> << >>]
                       ELSE session
    /\ users' = Drop(users, userId)
    /\ oauth_clients' = OnDeleteCascade(oauth_clients, "user_id", userId)
    /\ user_tool_group_selections' = OnDeleteCascade(user_tool_group_selections, 1, userId)
    /\ response' = IF userId \in DOMAIN users THEN "302" ELSE "404"
    /\ UNCHANGED <<inflight, issued, entropy, completed, discovery,
                   temp_mcp_discover, sqlite_sequence>>
    /\ UNCHANGED <<tools, tool_groups, tool_group_tools, file>>
    /\ UNCHANGED <<fmtVars, callVars>>

NextUsers ==
    \/ \E r \in 1..MaxRequests, userId \in UserIds : RotateBegin(r, userId)
    \/ \E r \in 1..MaxRequests : RotateFinish(r)
    \/ \E userName \in UserNames : CreateUser(userName)
    \/ \E userId \in UserIds : DeleteUser(userId)

SpecUsers == InitUsers /\ [][NextUsers]_vars

\* The positions of issued that carry a secret of the given client.
IssuedFor(client_id) == {i \in DOMAIN issued : issued[i].client_id = client_id}

\* The position of the secret most recently returned for the client.
LastIssuedFor(client_id) ==
    CHOOSE i \in IssuedFor(client_id) : \A j \in IssuedFor(client_id) : j <= i

\* For every stored client whose secret was ever returned: the secret
\* returned last verifies, no secret returned earlier does, and the row
\* holds a bcrypt hash and no plaintext.
C13_LastSecretVerifies ==
    \A c \in oauth_clients :
        /\ DOMAIN c = {"client_id", "user_id", "client_secret_hash"}
        /\ DOMAIN c.client_secret_hash = {"bcrypt"}
        /\ IssuedFor(c.client_id) # {} =>
              \A i \in DOMAIN issued :
                  bcryptCompare(issued[i].client_secret, c.client_secret_hash)
                      <=> i = LastIssuedFor(c.client_id)

\* A step in which a secret request is answered 404 for lack of a client;
\* no hashing is started in it.
RotateNotFound ==
    /\ response' = "404"
    /\ inflight' = inflight
    /\ IF lastInput' = NoRecord THEN FALSE ELSE lastInput'.route = "oauth-secret"
    /\ \A c \in oauth_clients : c.user_id # lastInput'.userId

\* C13: after any rotations, of all the secrets ever returned exactly the
\* one returned last for a client verifies against its stored hash; only a
\* hash is stored; a rotation for a user without a client is answered 404
\* and changes no stored row and hands out nothing.
C13_Rotation ==
    /\ []C13_LastSecretVerifies
    /\ [][RotateNotFound => UNCHANGED <<oauth_clients, users, issued, entropy>>]_vars

\* Two secrets were returned for one stored client, and then a rotation for
\* a user without a client was answered 404.
C13_Witness ==
    /\ response = "404"
    /\ IF lastInput = NoRecord THEN FALSE ELSE lastInput.route = "oauth-secret"
    /\ \E c \in oauth_clients : Cardinality(IssuedFor(c.client_id)) >= 2

\* The OAuth clients bound to a user.
ClientsOf(userId) == {c \in oauth_clients : c.user_id = userId}

\* In every reachable state no user has more than one OAuth client.
C14_AtMostOneClient ==
    \A u \in DOMAIN users : Cardinality(ClientsOf(u)) <= 1

\* The last request was a create-user request answered with the redirect,
\* for a name that is not blank.
CreateUserSucceeded ==
    IF lastInput = NoRecord THEN FALSE
    ELSE /\ lastInput.route = "create-user"
         /\ response = "302"

\* C14 as stated: after a successful create-user request with a non-empty
\* name a user with the trimmed name exists and exactly one OAuth client is
\* bound to it, with client_id ally_agent_user_<user id> and a stored hash;
\* and no user ever has more than one OAuth client.
C14_Original ==
    /\ C14_AtMostOneClient
    /\ CreateUserSucceeded =>
          \E u \in DOMAIN users :
              /\ users[u].name = Trim(lastInput.userName)
              /\ \E c \in ClientsOf(u) :
                    /\ ClientsOf(u) = {c}
                    /\ c.client_id = clientId(u)
                    /\ DOMAIN c.client_secret_hash = {"bcrypt"}

\* The last request was a create-user request whose trimmed name is the
\* name of a stored user.
CreateUserNameTaken ==
    IF lastInput = NoRecord THEN FALSE
    ELSE IF lastInput.route # "create-user" THEN FALSE
    ELSE IF lastInput.userName = Null THEN FALSE
    ELSE \E u \in DOMAIN users : users[u].name = Trim(lastInput.userName)

\* No two stored users have the same name (users.name is UNIQUE).
C23_NamesDistinct ==
    \A u, v \in DOMAIN users : users[u].name = users[v].name => u = v

\* C23 as stated: no two users have the same name, and a create-user
\* request whose trimmed name equals the name of an existing user is
\* answered 400 (create-user changes no table in any case).
C23_Original ==
    /\ C23_NamesDistinct
    /\ CreateUserNameTaken => response = "400"

\* C24 as stated: whatever requests were served, delete-user requests for
\* id 1 among them, the user with id 1 is stored.
C24_Original == 1 \in DOMAIN users

-----------------------------------------------------------------------------
(* Selecting users and toggling, in one browser session, while other        *)
(* sessions toggle tool groups for the users they have selected.            *)

\* Two users, two tools and two tool groups.
SessionTables ==
    /\ users = << [name |-> DefaultUser], [name |-> Alice] >>
    /\ tools = << [name |-> <<"A">>, description |-> <<"a">>,
                   code |-> <<"d", "e", "f", " ", "a", "(", ")", ":">>],
                  [name |-> <<"B">>, description |-> <<"b">>, code |-> Null] >>
    /\ tool_groups = << [name |-> <<"G">>, instructions |-> <<"g">>],
                        [name |-> <<"H">>, instructions |-> <<"h">>] >>
    /\ tool_group_tools = {<<1, 1, 1>>, <<2, 1, 1>>, <<2, 2, 1>>}

\* Ids the requests of the session name: the stored ones and one more.
RequestIds == 1..3

\* A fresh session over the stored rows: no user selected, nothing enabled,
\* no selection stored.
InitSession ==
    /\ SessionTables
    /\ user_tool_group_selections = {}
    /\ session = [currentUser |-> NoRecord, enabledTools |-> << >>, enabledToolGroups |-> << >>]
    /\ file = NoRecord
    /\ response = None
    /\ lastInput = NoRecord
    /\ FormatIdle
    /\ CallIdle
    /\ SrvIdle

\* POST /tool-groups/toggle/:id in another session, one that has the user
\* selected: the same UPDATE or INSERT; the list it changes is its own.
OtherSessionToggle(userId, groupId) ==
    /\ lastInput' = [route |-> "tool-groups-toggle", id |-> groupId, user |-> userId,
                     client |-> "other", before |-> NoRecord,
                     stored |-> user_tool_group_selections]
    /\ response' = "302"
    /\ user_tool_group_selections' = ToggledSelections(userId, groupId)
    /\ UNCHANGED <<users, tools, tool_groups, tool_group_tools, session, file>>
    /\ UNCHANGED <<fmtVars, callVars, srvVars>>

NextSession ==
    \/ \E userId \in RequestIds : SelectUser(userId)
    \/ \E toolId \in DOMAIN tools : ToolsToggle(toolId)
    \/ \E groupId \in RequestIds : ToolGroupsToggle(groupId)
    \/ \E userId \in DOMAIN users, groupId \in DOMAIN tool_groups :
          OtherSessionToggle(userId, groupId)

SpecSession == InitSession /\ [][NextSession]_vars

\* The stored flag of a (user, group) pair in a selections table: a row
\* with enabled = 1.
Flag(stored, userId, groupId) == <<userId, groupId, TRUE>> \in stored

\* The last request came from the session, on the given route.
OwnRequest(input, route) ==
    IF input = NoRecord THEN FALSE
    ELSE input.route = route /\ input.client = "own"

\* A step that selects again the user the session had before it selected
\* another one: the request before was a select of another user, answered
\* 302, and this one names the user that one replaced.
SelectsAgain ==
    /\ OwnRequest(lastInput, "select-user")
    /\ OwnRequest(lastInput', "select-user")
    /\ response = "302"
    /\ lastInput.user # 0
    /\ lastInput.id # lastInput.user
    /\ lastInput'.id = lastInput.user

\* C15 as stated: the tools and the groups that were on in A's session when
\* another user was selected are on again once A is selected again (for a
\* group: unless another session of A has switched it off meanwhile).
C15_Original ==
    [][SelectsAgain =>
          /\ Range(lastInput.before.enabledTools) \subseteq Range(session'.enabledTools)
          /\ \A g \in Range(lastInput.before.enabledToolGroups) :
                Flag(user_tool_group_selections, lastInput.user, g)
                    => g \in Range(session'.enabledToolGroups)]_vars

\* The half of C15 about tool groups.
C15_GroupsRestored ==
    [][SelectsAgain =>
          \A g \in Range(lastInput.before.enabledToolGroups) :
              Flag(user_tool_group_selections, lastInput.user, g)
                  => g \in Range(session'.enabledToolGroups)]_vars

\* A step that serves a toggle request, of a tool or of a tool group, from
\* any session.
ToggleStep ==
    IF lastInput' = NoRecord THEN FALSE
    ELSE lastInput'.route \in {"tools-toggle", "tool-groups-toggle"}

\* The rows a step adds to or removes from the stored selections.
ChangedRows ==
    (user_tool_group_selections' \ user_tool_group_selections)
        \cup (user_tool_group_selections \ user_tool_group_selections')

\* C16: a toggle made while user A is selected changes no stored enabled
\* flag of any other user, whatever was selected and toggled before.
C16_OtherUsersUntouched ==
    [][ToggleStep => \A x \in ChangedRows : x[1] = lastInput'.user]_vars

\* A group toggle has just been served for one user while another user has
\* a group stored as enabled.
C16_Witness ==
    /\ OwnRequest(lastInput, "tool-groups-toggle")
    /\ response = "302"
    /\ \E x \in user_tool_group_selections : x[1] # lastInput.user /\ x[3]
    /\ \E x \in user_tool_group_selections : x[1] = lastInput.user /\ x[2] = lastInput.id

\* A group toggle request of the session with a user selected, for a
\* stored group.
EffectiveToggle(input) ==
    /\ OwnRequest(input, "tool-groups-toggle")
    /\ input.user # 0
    /\ input.id \in DOMAIN tool_groups

\* Whether the group is in the enabled list of a session.
Listed(sess, groupId) == groupId \in Range(sess.enabledToolGroups)

\* The step repeats the toggle request served just before it.
TogglesAgain ==
    /\ EffectiveToggle(lastInput)
    /\ lastInput.id = lastInput'.id
    /\ lastInput.user = lastInput'.user

\* No pair has its flag set.
NoFlagSet ==
    \A u \in DOMAIN users, g \in DOMAIN tool_groups :
        ~Flag(user_tool_group_selections, u, g)

ToggleWithoutUser(route) ==
    /\ OwnRequest(lastInput', route)
    /\ lastInput'.user = 0

\* C18 as stated: with no selected user a toggle request, for a tool or for
\* a tool group, is rejected and changes neither the session's enabled sets
\* nor any stored selection.
C18_Original ==
    [][ToggleWithoutUser("tools-toggle") \/ ToggleWithoutUser("tool-groups-toggle") =>
          /\ response' = "400"
          /\ UNCHANGED <<session, user_tool_group_selections>>]_vars

\* The half of C18 about tool groups.
C18_GroupToggleRejected ==
    [][ToggleWithoutUser("tool-groups-toggle") =>
          /\ response' = "400"
          /\ UNCHANGED <<session, user_tool_group_selections>>]_vars

\* The groups whose stored flag for a user is enabled.
EnabledGroups(userId) ==
    {g \in DOMAIN tool_groups : Flag(user_tool_group_selections, userId, g)}

\* C26: after a select-user request answered 302 the session's current user
\* is the user named, its enabled groups are exactly the groups whose stored
\* flag for that user is enabled, each listed once, and its enabled tools
\* are exactly the tools with an enabled row in user_tool_selections.
C26_SelectLoadsStored ==
    (OwnRequest(lastInput, "select-user") /\ response = "302") =>
        /\ session.currentUser = [id |-> lastInput.id, name |-> users[lastInput.id].name]
        /\ Range(session.enabledToolGroups) = EnabledGroups(lastInput.id)
        /\ Len(session.enabledToolGroups) = Cardinality(EnabledGroups(lastInput.id))
        /\ Range(session.enabledTools) =
              {x[2] : x \in {y \in user_tool_selections : y[1] = lastInput.id /\ y[3]}}
        /\ Len(session.enabledTools) = 0

\* A user with one group stored as enabled and one stored as disabled has
\* been selected by a session that had another user selected, with a tool
\* and a group in its lists that the selected user has not enabled.
C26_Witness ==
    /\ OwnRequest(lastInput, "select-user")
    /\ response = "302"
    /\ IF OwnRequest(lastInput, "select-user") /\ response = "302"
       THEN /\ lastInput.user \notin {0, lastInput.id}
            /\ lastInput.before.enabledTools # << >>
            /\ \E g \in Range(lastInput.before.enabledToolGroups) :
                  g \notin EnabledGroups(lastInput.id)
            /\ EnabledGroups(lastInput.id) # {}
            /\ \E g \in DOMAIN tool_groups :
                  <<lastInput.id, g, FALSE>> \in user_tool_group_selections
       ELSE FALSE

\* C28 as stated: whenever the session has a selected user, the groups of
\* its enabled list are the groups whose stored flag for that user is
\* enabled.
C28_Original ==
    session.currentUser # NoRecord =>
        Range(session.enabledToolGroups) = EnabledGroups(session.currentUser.id)

-----------------------------------------------------------------------------
(* The routes that view, create, update and delete tools and tool groups,   *)
(* with select-user and delete-user, over one small database.               *)

\* Most rows a table ever gets.
MaxRows == 2

\* A field the request body does not carry: req.body.name is undefined.
\* No text equals it.
Undefined == <<"undefined">>

X == <<"x">>

\* The bodies of the create and update forms: every field filled in, the
\* name left empty, the description (or instructions) not sent.
Bodies ==
    {[name |-> X, description |-> X],
     [name |-> << >>, description |-> X],
     [name |-> X, description |-> Undefined]}

\* The toolIds field of the group forms: nothing ticked, or tool 1.
ToolIdLists == {<< >>, <<1>>}

\* stmt.run(...) throws for a parameter that is undefined.
BindThrows(body) == body.name = Undefined \/ body.description = Undefined

\* What a create or update request leaves in lastInput.
CrudRequest(route, id, body) ==
    [route |-> route, id |-> id, client |-> "own", body |-> body]

\* The tables no tool or group route touches.
OtherTables == <<users, user_tool_group_selections, session, file,
                 oauth_clients, inflight, completed, issued, entropy, discovery, temp_mcp_discover>>

\* A database with one user, one tool and one group that holds the tool.
InitCrud ==
    /\ users = << [name |-> DefaultUser] >>
    /\ tools = << [name |-> X, description |-> X, code |-> X] >>
    /\ tool_groups = << [name |-> X, instructions |-> X] >>
    /\ tool_group_tools = {<<1, 1, 1>>}
    /\ user_tool_group_selections = {}
    /\ session = [currentUser |-> NoRecord, enabledTools |-> << >>, enabledToolGroups |-> << >>]
    /\ file = NoRecord
    /\ response = None
    /\ lastInput = NoRecord
    /\ FormatIdle
    /\ CallIdle
    /\ SrvIdle

\* GET /tool/:id and GET /edit/:id: the page, or 404 for an id not stored.
ToolView(route, toolId) ==
    /\ lastInput' = CrudRequest(route, toolId, NoRecord)
    /\ response' = IF toolId \in DOMAIN tools THEN "200" ELSE "404"
    /\ UNCHANGED <<tools, tool_groups, tool_group_tools, sqlite_sequence, OtherTables>>
    /\ UNCHANGED <<fmtVars, callVars>>

\* POST /new: the INSERT with the fields as they came and the redirect to
\* the new tool; 500 when the statement throws.
ToolNew(body) ==
    /\ lastInput' = CrudRequest("new", 0, body)
    /\ IF BindThrows(body)
       THEN /\ response' = "500"
            /\ UNCHANGED <<tools, sqlite_sequence>>
       ELSE /\ sqlite_sequence.tools < MaxRows
            /\ response' = "302"
            /\ tools' = Extend(tools, sqlite_sequence.tools + 1,
                               [name |-> body.name, description |-> body.description,
                                code |-> X])
            /\ sqlite_sequence' = [sqlite_sequence EXCEPT !.tools = @ + 1]
    /\ UNCHANGED <<tool_groups, tool_group_tools, OtherTables>>
    /\ UNCHANGED <<fmtVars, callVars>>

\* POST /edit/:id: the UPDATE; 404 when it changed no row, 500 when the
\* statement throws.
ToolEdit(toolId, body) ==
    /\ lastInput' = CrudRequest("edit", toolId, body)
    /\ IF BindThrows(body)
       THEN /\ response' = "500"
            /\ UNCHANGED tools
       ELSE IF toolId \notin DOMAIN tools
       THEN /\ response' = "404"
            /\ UNCHANGED tools
       ELSE /\ response' = "302"
            /\ tools' = [tools EXCEPT ![toolId] =
                            [name |-> body.name, description |-> body.description,
                             code |-> X]]
    /\ UNCHANGED <<tool_groups, tool_group_tools, sqlite_sequence, OtherTables>>
    /\ UNCHANGED <<fmtVars, callVars>>

\* POST /delete/:id: the DELETE, which cascades to tool_group_tools; 404
\* when it deleted no row.
ToolDelete(toolId) ==
    /\ lastInput' = CrudRequest("delete", toolId, NoRecord)
    /\ response' = IF toolId \in DOMAIN tools THEN "302" ELSE "404"
    /\ tools' = Drop(tools, toolId)
    /\ tool_group_tools' = OnDeleteCascade(tool_group_tools, 2, toolId)
    /\ UNCHANGED <<tool_groups, sqlite_sequence, OtherTables>>
    /\ UNCHANGED <<fmtVars, callVars>>

\* GET /tool-group/:id and GET /edit-tool-group/:id.
GroupView(route, groupId) ==
    /\ lastInput' = CrudRequest(route, groupId, NoRecord)
    /\ response' = IF groupId \in DOMAIN tool_groups THEN "200" ELSE "404"
    /\ UNCHANGED <<tools, tool_groups, tool_group_tools, sqlite_sequence, OtherTables>>
    /\ UNCHANGED <<fmtVars, callVars>>

\* The tables a transaction of the group routes writes, and whether a
\* statement of it has thrown.
Database ==
    [tools |-> tools, tool_groups |-> tool_groups, tool_group_tools |-> tool_group_tools,
     sqlite_sequence |-> sqlite_sequence, threw |-> FALSE]

\* UNIQUE(tool_group_id, tool_id) that rejects no row.
UniqueViolatedNever(rows, groupId, toolId) == FALSE

\* UNIQUE(tool_group_id, tool_id): the row to insert repeats a stored one.
UniqueViolated(rows, groupId, toolId) ==
    \E x \in rows : x[1] = groupId /\ x[2] = toolId

\* toolAssocStmt.run(groupId, toolId): INSERT INTO tool_group_tools, which
\* throws for a group or a tool that is not stored (foreign keys) and for a
\* pair that is stored already; nothing runs after a statement has thrown.
AssociationInsert(db, groupId, toolId) ==
    IF db.threw THEN db
    ELSE IF \/ groupId \notin DOMAIN db.tool_groups
            \/ toolId \notin DOMAIN db.tools
            \/ UniqueViolated(db.tool_group_tools, groupId, toolId)
         THEN [db EXCEPT !.threw = TRUE]
         ELSE LET copies == {x \in db.tool_group_tools : x[1] = groupId /\ x[2] = toolId}
              IN  [db EXCEPT !.tool_group_tools =
                                @ \cup {<<groupId, toolId, Cardinality(copies) + 1>>}]

\* toolIdsList.forEach(toolId => toolAssocStmt.run(groupId, toolId))
RECURSIVE AssociationInserts(_, _, _)
AssociationInserts(db, groupId, toolIds) ==
    IF toolIds = << >> THEN db
    ELSE AssociationInserts(AssociationInsert(db, groupId, Head(toolIds)),
                            groupId, Tail(toolIds))

\* db.transaction(fn)() that commits whatever fn wrote before it threw.
transactionCommitsAlways(begun, done) == done

\* db.transaction(fn)(): what fn wrote is committed when it returns and
\* rolled back when it throws (the exception goes on to the handler's catch).
transaction(begun, done) ==
    IF done.threw THEN [begun EXCEPT !.threw = TRUE] ELSE done

\* POST /new-tool-group: in one transaction the INSERT of the group and of
\* its associations, then the redirect; 500 when a statement throws.
GroupNew(body, toolIds) ==
    LET groupId == sqlite_sequence.tool_groups + 1
        inserted == IF BindThrows(body) THEN [Database EXCEPT !.threw = TRUE]
                    ELSE [Database EXCEPT
                             !.tool_groups = Extend(@, groupId,
                                                    [name |-> body.name,
                                                     instructions |-> body.description]),
                             !.sqlite_sequence.tool_groups = groupId]
        ended == transaction(Database, AssociationInserts(inserted, groupId, toolIds))
    IN  /\ lastInput' = CrudRequest("new-tool-group", 0, body) @@ [toolIds |-> toolIds]
        /\ BindThrows(body) \/ sqlite_sequence.tool_groups < MaxRows
        /\ response' = IF ended.threw THEN "500" ELSE "302"
        /\ tool_groups' = ended.tool_groups
        /\ tool_group_tools' = ended.tool_group_tools
        /\ sqlite_sequence' = ended.sqlite_sequence
        /\ UNCHANGED <<tools, OtherTables>>
        /\ UNCHANGED <<fmtVars, callVars>>

\* POST /edit-tool-group/:id: in one transaction the UPDATE, an Error thrown
\* when it changed no row, the DELETE of the associations and their INSERTs,
\* then the redirect; whatever is thrown inside is caught by the handler and
\* answered 500.
GroupEdit(groupId, body, toolIds) ==
    LET updated == IF BindThrows(body) \/ groupId \notin DOMAIN tool_groups
                   THEN [Database EXCEPT !.threw = TRUE]
                   ELSE [Database EXCEPT
                            !.tool_groups[groupId] =
                                [name |-> body.name, instructions |-> body.description],
                            !.tool_group_tools = {x \in @ : x[1] # groupId}]
        ended == transaction(Database, AssociationInserts(updated, groupId, toolIds))
    IN  /\ lastInput' = CrudRequest("edit-tool-group", groupId, body) @@ [toolIds |-> toolIds]
        /\ response' = IF ended.threw THEN "500" ELSE "302"
        /\ tool_groups' = ended.tool_groups
        /\ tool_group_tools' = ended.tool_group_tools
        /\ UNCHANGED <<tools, sqlite_sequence, OtherTables>>
        /\ UNCHANGED <<fmtVars, callVars>>

\* POST /delete-tool-group/:id: the DELETE, which cascades to
\* tool_group_tools and user_tool_group_selections; 404 when it deleted no row.
GroupDelete(groupId) ==
    /\ lastInput' = CrudRequest("delete-tool-group", groupId, NoRecord)
    /\ response' = IF groupId \in DOMAIN tool_groups THEN "302" ELSE "404"
    /\ tool_groups' = Drop(tool_groups, groupId)
    /\ tool_group_tools' = OnDeleteCascade(tool_group_tools, 1, groupId)
    /\ user_tool_group_selections' = OnDeleteCascade(user_tool_group_selections, 2, groupId)
    /\ UNCHANGED <<tools, sqlite_sequence, users, session, file,
                   oauth_clients, inflight, completed, issued, entropy, discovery,
                   temp_mcp_discover>>
    /\ UNCHANGED <<fmtVars, callVars>>

\* The ids the requests name: stored, deleted or never stored.
CrudIds == 1..MaxRows + 1

NextCrud ==
    \/ \E toolId \in CrudIds, route \in {"tool", "edit-form"} : ToolView(route, toolId)
    \/ \E body \in Bodies : ToolNew(body)
    \/ \E toolId \in CrudIds, body \in Bodies : ToolEdit(toolId, body)
    \/ \E toolId \in CrudIds : ToolDelete(toolId)
    \/ \E groupId \in CrudIds, route \in {"tool-group", "edit-tool-group-form"} :
          GroupView(route, groupId)
    \/ \E body \in Bodies, toolIds \in ToolIdLists : GroupNew(body, toolIds)
    \/ \E groupId \in CrudIds, body \in Bodies, toolIds \in ToolIdLists :
          GroupEdit(groupId, body, toolIds)
    \/ \E groupId \in CrudIds : GroupDelete(groupId)
    \/ \E userId \in 1..2 : SelectUser(userId)
    \/ \E userId \in 1..2 : DeleteUser(userId)

SpecCrud == InitCrud /\ [][NextCrud]_vars

\* The routes that address one tool, one tool group or one user by id.
ToolRoutes == {"tool", "edit-form", "edit", "delete"}
GroupRoutes == {"tool-group", "edit-tool-group-form", "edit-tool-group", "delete-tool-group"}
UserRoutes == {"select-user", "delete-user"}

\* A step that serves a request on one of the routes, addressed to an id
\* the table does not hold, with every field of the form sent.
AddressesMissing(routes) ==
    IF lastInput' = NoRecord THEN FALSE
    ELSE /\ lastInput'.route \in routes
         /\ lastInput'.id \notin
               (IF lastInput'.route \in ToolRoutes THEN DOMAIN tools
                ELSE IF lastInput'.route \in GroupRoutes THEN DOMAIN tool_groups
                ELSE DOMAIN users)
         /\ IF lastInput'.route \in {"edit", "edit-tool-group"}
            THEN ~BindThrows(lastInput'.body)
            ELSE TRUE

\* The request is answered 404 and changes no stored and no session state.
NotFoundAndUnchanged ==
    /\ response' = "404"
    /\ UNCHANGED <<users, tools, tool_groups, tool_group_tools,
                   user_tool_group_selections, oauth_clients, sqlite_sequence, session>>

\* C19 as stated: every view, edit, update, delete or select request
\* addressed to a tool, tool group or user id that does not exist is
\* answered 404 and changes no stored or session state.
C19_Original ==
    [][AddressesMissing(ToolRoutes \cup GroupRoutes \cup UserRoutes)
          => NotFoundAndUnchanged]_vars

\* C19 for every route but the update of a tool group.
C19_OtherRoutes ==
    [][AddressesMissing((ToolRoutes \cup GroupRoutes \cup UserRoutes) \ {"edit-tool-group"})
          => NotFoundAndUnchanged]_vars

\* The update of a missing tool group changes nothing either; only its
\* status differs.
C19_MissingGroupUnchanged ==
    [][AddressesMissing({"edit-tool-group"})
          => /\ response' = "500"
             /\ UNCHANGED <<users, tools, tool_groups, tool_group_tools,
                            user_tool_group_selections, oauth_clients, sqlite_sequence,
                            session>>]_vars

\* The routes that create or update a tool or a tool group.
WriteRoutes == {"new", "edit", "new-tool-group", "edit-tool-group"}

\* A required field of the body is not sent, or is empty.
MissingOrEmpty(body) ==
    \/ body.name \in {Undefined, << >>}
    \/ body.description \in {Undefined, << >>}

\* A step that serves a create or update request whose body lacks a
\* required field among the given ones; an update addresses a stored row.
WritesWithout(lacking) ==
    IF lastInput' = NoRecord THEN FALSE
    ELSE /\ lastInput'.route \in WriteRoutes
         /\ lastInput'.body \in lacking
         /\ lastInput'.route = "edit" => lastInput'.id \in DOMAIN tools
         /\ lastInput'.route = "edit-tool-group" => lastInput'.id \in DOMAIN tool_groups

\* C20 as stated: a create or update request for a tool or a tool group in
\* which a required field is missing or empty is rejected, an error is
\* reported to the caller, and no tool or group row is created or modified.
C20_Original ==
    [][WritesWithout({b \in Bodies : MissingOrEmpty(b)}) =>
          /\ response' \notin {"200", "302"}
          /\ UNCHANGED <<tools, tool_groups, tool_group_tools, sqlite_sequence>>]_vars

\* C20 for the bodies in which a field is not sent at all: the statement
\* throws, the answer is 500 and no row is created or modified.
C20_UnsentFieldFails ==
    [][WritesWithout({b \in Bodies : BindThrows(b)}) =>
          /\ response' = "500"
          /\ UNCHANGED <<tools, tool_groups, tool_group_tools, sqlite_sequence>>]_vars

-----------------------------------------------------------------------------
(* Membership: the group routes with every shape of toolIds, the MCP import *)
(* and the deletes, over the tables that refer to one another.              *)

\* The toolIds of the group forms: none, one tool, two tools, one tool sent
\* twice, and tool 1 followed by the tool with the highest id of all.
MemberLists == {<< >>, <<2>>, <<1, 2>>, <<1, 1>>, <<1, MaxRows + 1>>}

\* A tool of toolsData.
ImportedTool == [name |-> <<"m">>, description |-> << >>]

\* The bodies of the import form: every field sent with one tool or with a
\* tool after which comes one without a name, no tool found, toolsData that
\* is not JSON, and the server URL left out.
ImportBodies ==
    {[serverUrl |-> RemoteMcpUrl, name |-> X, instructions |-> X,
      toolsData |-> [json |-> TRUE, tools |-> <<ImportedTool>>]],
     [serverUrl |-> RemoteMcpUrl, name |-> X, instructions |-> X,
      toolsData |-> [json |-> TRUE,
                     tools |-> <<ImportedTool, [name |-> Undefined, description |-> << >>]>>]],
     [serverUrl |-> RemoteMcpUrl, name |-> X, instructions |-> X,
      toolsData |-> [json |-> TRUE, tools |-> << >>]],
     [serverUrl |-> RemoteMcpUrl, name |-> X, instructions |-> X,
      toolsData |-> [json |-> FALSE, tools |-> << >>]],
     [serverUrl |-> "", name |-> X, instructions |-> X,
      toolsData |-> [json |-> TRUE, tools |-> <<ImportedTool>>]]}

\* The loop over tools of the import: generateMCPToolCode, which throws a
\* TypeError for a tool without a name, and the INSERT INTO tools; the new
\* ids are pushed onto toolIds.
RECURSIVE ToolInserts(_, _, _)
ToolInserts(db, toolList, serverUrl) ==
    IF toolList = << >> \/ db.threw THEN db
    ELSE LET tool == Head(toolList)
             toolId == db.sqlite_sequence.tools + 1
         IN  IF tool.name = Undefined
             THEN [db EXCEPT !.threw = TRUE]
             ELSE ToolInserts(
                     [db EXCEPT
                         !.tools = Extend(@, toolId,
                                     [name |-> tool.name,
                                      description |->
                                          IF tool.description = << >>
                                          THEN <<"M", "C", "P", " ", "t", "o", "o", "l", " ",
                                                 "f", "r", "o", "m", " ", "e", "x", "t", "e",
                                                 "r", "n", "a", "l", " ", "s", "e", "r", "v",
                                                 "e", "r">>
                                          ELSE tool.description,
                                      code |-> generateMCPToolCode(tool, serverUrl)]),
                         !.sqlite_sequence.tools = toolId,
                         !.toolIds = Append(@, toolId)],
                     Tail(toolList), serverUrl)

\* POST /import-mcp-server: 400 for a field left out or empty and for no
\* tool to import, 500 for toolsData that does not parse; then in one
\* transaction the tools, the group and the associations, and the redirect;
\* 500 when a statement throws.
ImportMcp(body) ==
    LET begun == Database @@ [toolIds |-> << >>]
        toolList == body.toolsData.tools
        groupId == sqlite_sequence.tool_groups + 1
        withTools == ToolInserts(begun, toolList, body.serverUrl)
        withGroup == IF withTools.threw THEN withTools
                     ELSE [withTools EXCEPT
                              !.tool_groups = Extend(@, groupId,
                                                     [name |-> body.name,
                                                      instructions |-> body.instructions]),
                              !.sqlite_sequence.tool_groups = groupId]
        ended == transaction(begun, AssociationInserts(withGroup, groupId, withGroup.toolIds))
    IN  /\ lastInput' = CrudRequest("import-mcp-server", 0, body)
        /\ IF body.serverUrl = "" \/ body.name = << >> \/ body.instructions = << >>
           THEN /\ response' = "400"
                /\ UNCHANGED <<tools, tool_groups, tool_group_tools, sqlite_sequence>>
           ELSE IF ~body.toolsData.json
           THEN /\ response' = "500"
                /\ UNCHANGED <<tools, tool_groups, tool_group_tools, sqlite_sequence>>
           ELSE IF toolList = << >>
           THEN /\ response' = "400"
                /\ UNCHANGED <<tools, tool_groups, tool_group_tools, sqlite_sequence>>
           ELSE /\ sqlite_sequence.tools + Len(toolList) <= MaxRows
                /\ sqlite_sequence.tool_groups < MaxRows
                /\ response' = IF ended.threw THEN "500" ELSE "302"
                /\ tools' = ended.tools
                /\ tool_groups' = ended.tool_groups
                /\ tool_group_tools' = ended.tool_group_tools
                /\ sqlite_sequence' = ended.sqlite_sequence
        /\ UNCHANGED OtherTables
        /\ UNCHANGED <<fmtVars, callVars>>

\* Two users with their OAuth clients, one tool and one group that holds it.
InitMembership ==
    /\ users = << [name |-> DefaultUser], [name |-> Alice] >>
    /\ tools = << [name |-> X, description |-> X, code |-> X] >>
    /\ tool_groups = << [name |-> X, instructions |-> X] >>
    /\ tool_group_tools = {<<1, 1, 1>>}
    /\ user_tool_group_selections = {}
    /\ session = [currentUser |-> NoRecord, enabledTools |-> << >>, enabledToolGroups |-> << >>]
    /\ file = NoRecord
    /\ response = None
    /\ lastInput = NoRecord
    /\ oauth_clients = {[client_id |-> clientId(u), user_id |-> u,
                         client_secret_hash |-> bcryptHash(randomBytes(u - 1))] : u \in 1..2}
    /\ entropy = 2
    /\ inflight = << >>
    /\ issued = << >>
    /\ completed = NoRecord
    /\ discovery = NoRecord
    /\ temp_mcp_discover = "absent"
    /\ sqlite_sequence = [users |-> Len(users), tools |-> Len(tools),
                          tool_groups |-> Len(tool_groups)]
    /\ FormatIdle
    /\ CallIdle

NextMembership ==
    \/ \E toolIds \in MemberLists : GroupNew([name |-> X, description |-> X], toolIds)
    \/ \E groupId \in 1..MaxRows, toolIds \in MemberLists :
          GroupEdit(groupId, [name |-> X, description |-> X], toolIds)
    \/ \E body \in ImportBodies : ImportMcp(body)
    \/ \E toolId \in 1..MaxRows : ToolDelete(toolId)
    \/ \E groupId \in 1..MaxRows : GroupDelete(groupId)
    \/ SelectUser(1)
    \/ ToolGroupsToggle(1)
    \/ \E userId \in 1..2 : DeleteUser(userId)

SpecMembership == InitMembership /\ [][NextMembership]_vars

\* The tools the rows of tool_group_tools give a group.
MembersOf(rows, groupId) == {x[2] : x \in {y \in rows : y[1] = groupId}}

\* The last request served came from the group forms.
GroupFormServed ==
    IF lastInput = NoRecord THEN FALSE
    ELSE lastInput.route \in {"new-tool-group", "edit-tool-group"}

\* C21: whatever group create, group edit, MCP import and delete requests
\* were served, tool_group_tools holds at most one row for each pair of a
\* group and a tool.
C21_NoDuplicateMembership ==
    \A x \in tool_group_tools :
        Cardinality({y \in tool_group_tools : y[1] = x[1] /\ y[2] = x[2]}) = 1

\* A group form that named one tool twice has been answered, and the tool is
\* a member of a group.
C21_Witness ==
    /\ GroupFormServed
    /\ IF GroupFormServed THEN lastInput.toolIds = <<1, 1>> ELSE FALSE
    /\ \E x \in tool_group_tools : x[2] = 1

\* C22: every row of tool_group_tools names a stored group and a stored
\* tool, every row of user_tool_group_selections (and of user_tool_selections)
\* a stored user and a stored group (tool), and every OAuth client a stored
\* user.
C22_RowsReferToStoredRows ==
    /\ \A x \in tool_group_tools : x[1] \in DOMAIN tool_groups /\ x[2] \in DOMAIN tools
    /\ \A x \in user_tool_group_selections :
          x[1] \in DOMAIN users /\ x[2] \in DOMAIN tool_groups
    /\ \A x \in user_tool_selections : x[1] \in DOMAIN users /\ x[2] \in DOMAIN tools
    /\ \A c \in oauth_clients : c.user_id \in DOMAIN users

\* A user with a stored selection row and an OAuth client has been deleted,
\* while a group and the tool that was a member of the first group are gone
\* as well.
C22_Witness ==
    /\ IF lastInput = NoRecord THEN FALSE
       ELSE IF lastInput.route # "delete-user" THEN FALSE
       ELSE \E x \in lastInput.stored : x[1] = lastInput.id
    /\ response = "302"
    /\ 1 \notin DOMAIN users
    /\ DOMAIN tool_groups # 1..sqlite_sequence.tool_groups
    /\ 1 \notin DOMAIN tools

\* C27: a group create or edit request answered 500 leaves tool_groups and
\* tool_group_tools as they were; one answered 302 leaves the group it
\* created or edited with exactly the submitted tools as members and the
\* rows of every other group as they were.
C27_GroupWriteAllOrNothing ==
    [][(IF lastInput' = NoRecord THEN FALSE
        ELSE lastInput'.route \in {"new-tool-group", "edit-tool-group"})
       => LET groupId == IF lastInput'.route = "new-tool-group"
                         THEN sqlite_sequence'.tool_groups
                         ELSE lastInput'.id
          IN  /\ response' \in {"302", "500"}
              /\ response' = "500" =>
                    /\ tool_groups' = tool_groups
                    /\ tool_group_tools' = tool_group_tools
                    /\ sqlite_sequence' = sqlite_sequence
              /\ response' = "302" =>
                    /\ groupId \in DOMAIN tool_groups'
                    /\ tool_groups'[groupId] = [name |-> lastInput'.body.name,
                                                instructions |-> lastInput'.body.description]
                    /\ MembersOf(tool_group_tools', groupId) = Range(lastInput'.toolIds)
                    /\ \A g \in (DOMAIN tool_groups) \ {groupId} :
                          /\ g \in DOMAIN tool_groups' /\ tool_groups'[g] = tool_groups[g]
                          /\ MembersOf(tool_group_tools', g) = MembersOf(tool_group_tools, g)
      ]_vars

\* An edit of a stored group holding a tool was answered 500 after its first
\* association insert had gone through, and the group holds what it held.
C27_Witness ==
    /\ GroupFormServed
    /\ IF GroupFormServed
       THEN /\ lastInput.route = "edit-tool-group"
            /\ lastInput.toolIds = <<1, MaxRows + 1>>
            /\ lastInput.id \in DOMAIN tool_groups
            /\ MembersOf(tool_group_tools, lastInput.id) = {2}
       ELSE FALSE
    /\ response = "500"

-----------------------------------------------------------------------------
(* Import and generation: MCP servers are imported, their tools and groups  *)
(* are enabled in a session (none is disabled again), and the document is   *)
(* generated.                                                               *)

\* What the servers list: a tool with a reserved name and a tool with
\* another name.
ListedMail == [name |-> send_email_tool, description |-> << >>]
ListedOther == [name |-> <<"m">>, description |-> << >>]

\* The import forms sent: the local server and a remote one that list the
\* tool with the reserved name, and the remote one listing the other tool.
ImportedServers ==
    {[serverUrl |-> i[1], name |-> X, instructions |-> X,
      toolsData |-> [json |-> TRUE, tools |-> <<i[2]>>]] :
        i \in {<<LocalMcpUrl, ListedMail>>, <<RemoteMcpUrl, ListedMail>>,
               <<RemoteMcpUrl, ListedOther>>}}

\* The default user selected in a fresh session, no tool and no group yet.
InitImport ==
    /\ users = << [name |-> DefaultUser] >>
    /\ tools = << >>
    /\ tool_groups = << >>
    /\ tool_group_tools = {}
    /\ user_tool_group_selections = {}
    /\ session = [currentUser |-> [id |-> 1, name |-> DefaultUser],
                  enabledTools |-> << >>, enabledToolGroups |-> << >>]
    /\ file = NoRecord
    /\ response = None
    /\ lastInput = NoRecord
    /\ FormatIdle
    /\ CallIdle
    /\ SrvIdle

NextImport ==
    \/ \E body \in ImportedServers : ImportMcp(body)
    \/ \E toolId \in DOMAIN tools \ Range(session.enabledTools) : ToolsToggle(toolId)
    \/ \E groupId \in DOMAIN tool_groups \ Range(session.enabledToolGroups) :
          ToolGroupsToggle(groupId)
    \/ UpdateExternal

SpecImport == InitImport /\ [][NextImport]_vars

\* The last request was an update-external request answered 302.
Generated ==
    IF lastInput = NoRecord THEN FALSE
    ELSE "enabledTools" \in DOMAIN lastInput /\ response = "302"

\* The servers the callables written for the tools of a name connect to:
\* the client of each MCP callable and the Client(...) of each stored code.
ConnectsTo(tool) ==
    {p.client : p \in {q \in PiecesOf("mcp_function") : q.call_tool = tool.name}}
    \cup {S \in {LocalMcpUrl, RemoteMcpUrl} :
             \E p \in PiecesOf("code") :
                 p.text = NormalizeNewlines(generateMCPToolCode(tool, S))}

\* The tools the document was generated for, standalone or in a group.
Emitted == Standalone \cup UNION {Range(g.tools) : g \in Groups}

\* Imported tools whose name is not reserved are written with the code the
\* import stored: their callable connects to the server imported from.
C30_OtherNamesKeepServer ==
    Generated =>
        \A t \in Emitted, S \in {LocalMcpUrl, RemoteMcpUrl} :
            (t.code = generateMCPToolCode(t, S) /\ ~IsReservedName(t.name))
                => (ConnectsTo(t) = {S})

\* C30 as stated: for every tool imported from the server at S and written
\* to the document, standalone or as a member of a group, the callable
\* written for it connects to S, whatever its name.
C30_Original ==
    Generated =>
        \A t \in Emitted, S \in {LocalMcpUrl, RemoteMcpUrl} :
            (t.code = generateMCPToolCode(t, S)) => (ConnectsTo(t) = {S})

=============================================================================
